---- MODULE Spec2Model ----
(***************************************************************************)
(* chess-insights: the tactics detector (computeTacticsStats), the worker  *)
(* that runs it (tactics.worker.ts), the hook that owns the worker         *)
(* (useTacticsWorker), the aggregators of gameAnalysis.ts, and the hooks   *)
(* that load the games and the opponents' countries into the store.        *)
(*                                                                         *)
(* The specifications share the variables:                                 *)
(*   Spec         the hook and its workers, an interleaving state machine  *)
(*   FairSpec     Spec with a worker that runs its handler when it can     *)
(*   FairSpecDispatch  FairSpec with posted messages that are dispatched   *)
(*   SpecTactics  computeTacticsStats applied to batches drawn at Init     *)
(*   SpecResults  getResult, computeResultCounts and computeCastlingStats  *)
(*                applied to batches drawn at Init                         *)
(*   SpecOpenings computeOpeningStats and extractOpening                   *)
(*   SpecMoves    detectCastling, classifyGamePhase and                    *)
(*                computePieceMoveFrequency                                *)
(*   SpecCalendar computeActivityHeatmap and computeCalendarStats          *)
(*   SpecAccuracy computeAccuracyStats and computeAccuracyDistribution     *)
(*   SpecFrame    any two analysis functions on the same array             *)
(*   SpecLoad     useLoadPlayerData.load, the store and the cache          *)
(*   SpecCountries useLoadOpponentCountries                                *)
(***************************************************************************)
EXTENDS Integers, Sequences, FiniteSets, TLC

VARIABLES
    \* useTacticsWorker and the workers it creates
    inputs,      \* the (games, username) of the latest render; ref tells arrays apart
    deps,        \* the (games, username) the effect last ran with, or NoDeps
    effPending,  \* a render changed the deps and its effect has not run yet
    mounted,     \* the component using the hook is mounted
    stats,       \* useState: TacticsStats | null
    loading,     \* useState: boolean
    statsFrom,   \* the worker whose response is in stats, 0 for none
    workers,     \* every worker created so far, in creation order
    cur,         \* the worker the effect created when it last ran, 0 for none
    \* the pure analysis functions
    games,       \* the batch handed to the function
    other,       \* a second batch, compared with the first, or the other arguments
    username,    \* the subject
    out,         \* the function's result for games
    outOther,    \* the function's result for other
    pc,          \* "input", then "called" or "counted" (out is set), then "done"
    \* the store, the cache and the hooks that load data
    store,       \* useGameStore: the state of the Zustand store
    cache,       \* the IndexedDB object store monthly-games, by cache key
    tasks,       \* the calls of the async functions load and fetchAll so far
    env,         \* what the network, the clock and window.__CHESS_TEST__ hold
    calls        \* the requests each task has made so far, in order

hookVars == <<inputs, deps, effPending, mounted, stats, loading, statsFrom, workers, cur>>
pureVars == <<games, other, username, out, outOther, pc>>
appVars == <<store, cache, tasks, env, calls>>
vars == <<inputs, deps, effPending, mounted, stats, loading, statsFrom, workers, cur,
          games, other, username, out, outOther, pc, store, cache, tasks, env, calls>>

\* null, of the type of the records it stands in for
Null == [null |-> TRUE]

\* ------------------------------------------------------------------------
\* Sequences and sums
\* ------------------------------------------------------------------------

Range(s) == {s[i] : i \in 1..Len(s)}

Reverse(s) == [i \in 1..Len(s) |-> s[Len(s) + 1 - i]]

RECURSIVE SumRange(_, _, _)
\* f[lo] + ... + f[hi]
SumRange(f, lo, hi) ==
    IF lo > hi THEN 0
    ELSE IF lo = hi THEN f[lo]
    ELSE LET mid == (lo + hi) \div 2
         IN  SumRange(f, lo, mid) + SumRange(f, mid + 1, hi)

Min(a, b) == IF a < b THEN a ELSE b

\* all sequences over S of length at most n
SeqsUpTo(S, n) == UNION {[1..k -> S] : k \in 0..n}

\* ------------------------------------------------------------------------
\* Identities: String.prototype.toLowerCase on the usernames of the model
\* ------------------------------------------------------------------------

Usernames == {"alice", "ALICE", "bob", "carol"}

toLowerCase(u) == IF u = "ALICE" THEN "alice" ELSE u

\* ------------------------------------------------------------------------
\* The rules engine (chess.js), restricted to a fragment of chess: the
\* fool's mate (1. f3 e5 2. g4 Qh4#), its mirror (1. e4 f6 2. d4 g5 3. Qh5#)
\* and the moves around them.  A position is the start position and the
\* moves played from it; "alt" is a start position set by a FEN header in
\* which White's a-pawn is missing, so that Rxa7 is legal there and nowhere
\* in the standard position.
\* ------------------------------------------------------------------------

WhiteMoves == {"f3", "g3", "g4", "e4", "d4", "Qh5", "Ke2", "Kd2", "Rxa7"}
BlackMoves == {"e5", "f6", "g5", "g6", "Nc6", "Qh4", "Ke7"}
AllMoves == WhiteMoves \cup BlackMoves

\* new Chess(): the standard start position
NewChess == [start |-> "std", played |-> <<>>]

Has(board, m) == \E i \in 1..Len(board.played) : board.played[i] = m

\* Chess.turn()
turn(board) == IF Len(board.played) % 2 = 0 THEN "w" ELSE "b"

\* the side to move is attacked by the other side's queen along the
\* diagonal its f-pawn left open, and has not answered the check yet
inCheck(board) ==
    IF turn(board) = "w"
    THEN Has(board, "Qh4") /\ Has(board, "f3")
         /\ ~Has(board, "g3") /\ ~Has(board, "Ke2") /\ ~Has(board, "Kd2")
    ELSE Has(board, "Qh5") /\ Has(board, "f6")
         /\ ~Has(board, "g6") /\ ~Has(board, "Ke7")

\* m can be made by the piece it names, whoever is to move and whether or
\* not it leaves the mover in check
Movable(board, m) ==
    /\ ~Has(board, m)
    /\ CASE m = "f3"   -> ~Has(board, "Qh4")
         [] m = "g3"   -> ~Has(board, "g4")
         [] m = "g4"   -> ~Has(board, "g3")
         [] m = "Qh5"  -> /\ Has(board, "e4") /\ ~Has(board, "f3")
                          /\ ~Has(board, "g4") /\ ~Has(board, "Ke2")
         [] m = "Ke2"  -> Has(board, "e4") /\ ~Has(board, "Kd2")
         [] m = "Kd2"  -> Has(board, "d4") /\ ~Has(board, "Ke2")
         [] m = "Rxa7" -> board.start = "alt"
         [] m = "f6"   -> ~Has(board, "Qh5")
         [] m = "g5"   -> ~Has(board, "g6")
         [] m = "g6"   -> ~Has(board, "g5")
         [] m = "Qh4"  -> /\ Has(board, "e5") /\ ~Has(board, "f6")
                          /\ ~Has(board, "g5") /\ ~Has(board, "Ke7")
         [] m = "Ke7"  -> Has(board, "e5")
         [] OTHER      -> TRUE

\* the moves that answer a check of the side to move
Answers(board) ==
    IF turn(board) = "w" THEN {"g3", "Ke2", "Kd2"} ELSE {"g6", "Ke7"}

\* Chess.moves(): the legal moves of the side to move
moves(board) ==
    {m \in (IF turn(board) = "w" THEN WhiteMoves ELSE BlackMoves) :
        /\ Movable(board, m)
        /\ inCheck(board) => m \in Answers(board)}

\* Chess.isCheckmate(): in check and no legal move
isCheckmate(board) == inCheck(board) /\ moves(board) = {}

\* Chess.move(m) throws on a move that is not legal
CanMove(board, m) == m \in moves(board)

\* Chess.move(m) on a legal move
move(board, m) == [board EXCEPT !.played = Append(@, m)]

\* Chess.undo(): takes the last move back
undo(board) == [board EXCEPT !.played = SubSeq(@, 1, Len(@) - 1)]

RECURSIVE Replay(_, _, _)
\* the moves of movetext from index i on are played on board one by one;
\* [ok |-> FALSE] when one of them is not legal where it is played
Replay(board, movetext, i) ==
    IF i > Len(movetext) THEN [ok |-> TRUE, board |-> board]
    ELSE IF ~CanMove(board, movetext[i]) THEN [ok |-> FALSE, board |-> board]
    ELSE Replay(move(board, movetext[i]), movetext, i + 1)

\* Chess.loadPgn(pgn) followed by Chess.history(): the game is replayed from
\* the position its headers set up (the standard one without a FEN header);
\* loadPgn throws when the movetext does not replay
loadPgn(pgn) ==
    LET r == Replay([start |-> pgn.fen, played |-> <<>>], pgn.movetext, 1)
    IN  [ok |-> r.ok, history |-> IF r.ok THEN pgn.movetext ELSE <<>>]

\* ------------------------------------------------------------------------
\* gameAnalysis.ts: helpers
\* ------------------------------------------------------------------------

\* playedAsWhite(game, username)
playedAsWhite(game, user) ==
    toLowerCase(game.white.username) = toLowerCase(user)

\* the comparator with its operands swapped: the oldest records first
compareOldest(a, b) == a.end_time - b.end_time

\* the comparator of computeTacticsStats: (a, b) => b.end_time - a.end_time
compareRecent(a, b) == b.end_time - a.end_time

\* Array.prototype.sort(compare) is stable: s[i] comes before s[j] when the
\* comparator says so, and in input order when it says they are equal
SortedBefore(s, i, j) ==
    \/ compareRecent(s[i], s[j]) < 0
    \/ compareRecent(s[i], s[j]) = 0 /\ i < j

\* the place each element of s has after the sort
Ranks(s) ==
    [i \in 1..Len(s) |-> 1 + Cardinality({j \in 1..Len(s) : SortedBefore(s, j, i)})]

\* [...games].sort((a, b) => b.end_time - a.end_time): a fresh array
sortRecent(s) ==
    LET rank == SubSeq(Ranks(s), 1, Len(s))
        at == [k \in 1..Len(s) |-> CHOOSE i \in 1..Len(s) : rank[i] = k]
    IN  [k \in 1..Len(s) |-> s[at[k]]]

\* a slice that keeps the whole array
sliceAll(s, n) == s

\* Array.prototype.slice(0, n)
slice(s, n) == SubSeq(s, 1, Min(n, Len(s)))

\* the sample cap of computeTacticsStats
SampleCap == 100

\* ------------------------------------------------------------------------
\* gameAnalysis.ts: computeTacticsStats
\* ------------------------------------------------------------------------

\* the turn test without the subject's side
isWhiteTurn(board, asWhite) == turn(board) = "w"

\* const isPlayerTurn = (board.turn() === 'w') === asWhite
isPlayerTurn(board, asWhite) == (turn(board) = "w") = asWhite

RECURSIVE Probe(_, _)
\* the loop over board.moves(): each candidate is made, tested for
\* checkmate and taken back; the loop breaks at the first mate.  The result
\* holds the board the loop leaves behind.
Probe(board, cands) ==
    IF cands = {} THEN [board |-> board, hasMateInOne |-> FALSE]
    ELSE LET m == CHOOSE c \in cands : TRUE
             made == move(board, m)
             mate == isCheckmate(made)
             back == undo(made)
         IN  IF mate THEN [board |-> back, hasMateInOne |-> TRUE]
             ELSE Probe(back, cands \ {m})

\* the counters after the played move of a ply with a mate in one
CountMate(cnt, afterMove) ==
    IF isCheckmate(afterMove)
    THEN [cnt EXCEPT !.matesPlayed = @ + 1]
    ELSE [cnt EXCEPT !.missedMates = @ + 1]

RECURSIVE PlyLoop(_, _, _, _, _)
\* for (let i = 0; i < history.length; i++) { ... }: cnt holds missedMates
\* and matesPlayed, which the loop updates in place, and threw, set when
\* board.move(history[i]) throws and the loop is left for the catch block
PlyLoop(board, history, i, asWhite, cnt) ==
    IF i > Len(history) THEN cnt
    ELSE IF isPlayerTurn(board, asWhite)
    THEN LET p == Probe(board, moves(board))
         IN  IF ~CanMove(p.board, history[i]) THEN [cnt EXCEPT !.threw = TRUE]
             ELSE LET nb == move(p.board, history[i])
                  IN  PlyLoop(nb, history, i + 1, asWhite,
                              IF p.hasMateInOne THEN CountMate(cnt, nb) ELSE cnt)
    ELSE IF ~CanMove(board, history[i]) THEN [cnt EXCEPT !.threw = TRUE]
         ELSE PlyLoop(move(board, history[i]), history, i + 1, asWhite, cnt)

\* the body of the loop over the sample: try { ... } catch { }
TryGame(game, user, cnt) ==
    LET fullGame == loadPgn(game.pgn)
    IN  IF ~fullGame.ok THEN cnt
        ELSE [PlyLoop(NewChess, fullGame.history, 1, playedAsWhite(game, user), cnt)
                EXCEPT !.threw = FALSE]

RECURSIVE SampleLoop(_, _, _, _, _)
\* for (const game of sample) { ... }: the iterations lo..hi in order,
\* starting from the counters cnt.  The range is halved to keep TLC's
\* evaluation shallow; the counters still pass from each game to the next.
\* (The test on the first half's counters is always true: it makes TLC
\* finish the first half before it starts the second.)
SampleLoop(sample, lo, hi, user, cnt) ==
    IF lo > hi THEN cnt
    ELSE IF lo = hi THEN TryGame(sample[lo], user, cnt)
    ELSE LET mid == (lo + hi) \div 2
             first == SampleLoop(sample, lo, mid, user, cnt)
         IN  IF first.missedMates + first.matesPlayed >= 0
             THEN SampleLoop(sample, mid + 1, hi, user, first)
             ELSE first

\* const sample = [...games].sort(...).slice(0, 100)
Sample(gs) == slice(sortRecent(gs), SampleCap)

computeTacticsStats(gs, user) ==
    LET sample == Sample(gs)
        cnt == SampleLoop(sample, 1, Len(sample), user,
                          [missedMates |-> 0, matesPlayed |-> 0, threw |-> FALSE])
    IN  [gamesAnalyzed |-> Len(sample),
         missedMates |-> cnt.missedMates,
         matesPlayed |-> cnt.matesPlayed]

\* ------------------------------------------------------------------------
\* Match records for the tactics detector
\* ------------------------------------------------------------------------

Kinds == {"fools", "missed", "revfools", "wmissed", "quiet", "garbage", "altmiss"}

\* the movetext and start position of each kind of game
Pgn(kind) ==
    CASE kind = "fools"    -> [fen |-> "std", movetext |-> <<"f3", "e5", "g4", "Qh4">>]
      [] kind = "missed"   -> [fen |-> "std",
                               movetext |-> <<"f3", "e5", "g4", "Nc6", "e4", "g6">>]
      [] kind = "revfools" -> [fen |-> "std", movetext |-> <<"e4", "f6", "d4", "g5", "Qh5">>]
      [] kind = "wmissed"  -> [fen |-> "std",
                               movetext |-> <<"e4", "f6", "d4", "g5", "g3", "Nc6", "Qh5">>]
      [] kind = "quiet"    -> [fen |-> "std", movetext |-> <<"e4", "e5">>]
      [] kind = "garbage"  -> [fen |-> "std", movetext |-> <<"e4", "??">>]
      [] kind = "altmiss"  -> [fen |-> "alt",
                               movetext |-> <<"f3", "e5", "g4", "Nc6", "Rxa7">>]

\* a record of the subject alice against bob: alice has the side given
Rec(kind, side, t) ==
    [white    |-> [username |-> IF side = "w" THEN "ALICE" ELSE "bob",
                   result   |-> IF side = "w" THEN "win" ELSE "resigned"],
     black    |-> [username |-> IF side = "b" THEN "alice" ELSE "bob",
                   result   |-> IF side = "b" THEN "win" ELSE "resigned"],
     end_time |-> t,
     pgn      |-> Pgn(kind)]

\* the side on which the kind of game has something to count
CountingSide(kind) == IF kind \in {"revfools", "wmissed"} THEN "w" ELSE "b"

\* short batches: every sequence of records, all with the same end_time
MaxSmall == 2
SmallRecords == {Rec(k, s, 1) : k \in Kinds, s \in {"w", "b"}}
SmallBatches == SeqsUpTo(SmallRecords, MaxSmall)

\* long batches, around the sample cap: quiet games and one special game,
\* with end_times ascending, descending, all equal or equal in pairs
MaxExtra == 2
TimePatterns == {"asc", "desc", "const", "pairs"}

TimeOf(pattern, i, n) ==
    CASE pattern = "asc"   -> i
      [] pattern = "desc"  -> n + 1 - i
      [] pattern = "const" -> 7
      [] pattern = "pairs" -> (i + 1) \div 2

LongBatch(n, pattern, kind, at) ==
    [i \in 1..n |-> IF i = at
                    THEN Rec(kind, CountingSide(kind), TimeOf(pattern, i, n))
                    ELSE Rec("quiet", "b", TimeOf(pattern, i, n))]

SpecialKinds == {"missed", "altmiss"}

LongBatches ==
    {LongBatch(n, p, k, at) :
        n \in (SampleCap - 1)..(SampleCap + MaxExtra), p \in TimePatterns,
        k \in SpecialKinds, at \in {1}}
    \cup
    {LongBatch(n, p, k, n) :
        n \in (SampleCap - 1)..(SampleCap + MaxExtra), p \in TimePatterns,
        k \in SpecialKinds}

TacticsBatches == SmallBatches \cup LongBatches

\* the number of records of gs that ended at t or later
NotOlder(gs, t) == Cardinality({i \in 1..Len(gs) : gs[i].end_time >= t})

\* the end_time of the oldest of the 100 most recent records of gs: the
\* latest end_time that 100 records reach; 0 when gs has at most 100 records
CutTime(gs) ==
    IF Len(gs) <= 100 THEN 0
    ELSE LET reached == {t \in {gs[i].end_time : i \in 1..Len(gs)} :
                            NotOlder(gs, t) >= 100}
         IN  CHOOSE t \in reached : \A u \in reached : u <= t

\* the 100 most recent records are determined: the batch has at most 100
\* records, or exactly 100 of them ended at the cut or later
HasCleanCut(gs) == Len(gs) <= 100 \/ NotOlder(gs, CutTime(gs)) = 100

\* gs without the records older than the 100 most recent
DropOld(gs) ==
    LET c == CutTime(gs)
        Keep(r) == r.end_time >= c
    IN  SelectSeq(gs, Keep)

\* gs with each record older than the 100 most recent replaced by a game
\* in which the subject mates
ReplaceOld(gs) ==
    LET c == CutTime(gs)
    IN  [i \in 1..Len(gs) |->
            IF gs[i].end_time < c THEN Rec("fools", "b", gs[i].end_time) ELSE gs[i]]

\* the batches a batch is compared with
Variants(gs) == {gs, Reverse(gs), DropOld(gs), ReplaceOld(gs)}

\* ------------------------------------------------------------------------
\* The hook's variables while a pure function is checked
\* ------------------------------------------------------------------------

\* no effect has run yet
NoDeps == [games |-> <<>>, ref |-> 0, username |-> "none"]

HookIdle ==
    /\ inputs = NoDeps
    /\ deps = NoDeps
    /\ effPending = FALSE
    /\ mounted = FALSE
    /\ stats = Null
    /\ loading = FALSE
    /\ statsFrom = 0
    /\ workers = <<>>
    /\ cur = 0

\* null in the place of a username
NoUsername == "none"

\* the state the store is created with, and reset() returns to
initialProgress == [totalMonths |-> 0, fetchedMonths |-> 0, totalGames |-> 0]

initialStore ==
    [username |-> NoUsername, profile |-> Null, stats |-> Null, games |-> <<>>,
     loadingState |-> "idle", error |-> Null, progress |-> initialProgress,
     opponentCountries |-> <<>>, countriesLoadingState |-> "idle"]

\* nothing is being loaded
AppIdle ==
    /\ store = initialStore
    /\ cache = <<>>
    /\ tasks = <<>>
    /\ env = Null
    /\ calls = <<>>

\* ------------------------------------------------------------------------
\* SpecTactics: computeTacticsStats on a batch and on a batch it is
\* compared with
\* ------------------------------------------------------------------------

TacticsInit ==
    /\ HookIdle
    /\ AppIdle
    /\ games \in TacticsBatches
    /\ other \in Variants(games)
    /\ username = "alice"
    /\ out = Null
    /\ outOther = Null
    /\ pc = "input"

TacticsCall ==
    /\ pc = "input"
    /\ out' = computeTacticsStats(games, username)
    /\ pc' = "called"
    /\ UNCHANGED <<games, other, username, outOther>>
    /\ UNCHANGED <<hookVars, appVars>>

TacticsCallOther ==
    /\ pc = "called"
    /\ outOther' = computeTacticsStats(other, username)
    /\ pc' = "done"
    /\ UNCHANGED <<games, other, username, out>>
    /\ UNCHANGED <<hookVars, appVars>>

TacticsNext == TacticsCall \/ TacticsCallOther

SpecTactics == TacticsInit /\ [][TacticsNext]_vars

\* ------------------------------------------------------------------------
\* What the claims about computeTacticsStats speak of
\* ------------------------------------------------------------------------

\* the position after the first i plies of the game, from the standard start
PosAfter(game, i) == [start |-> "std", played |-> SubSeq(game.pgn.movetext, 1, i)]

\* the game loads from the position its headers set up and every ply of it
\* is legal on the standard board: the replay succeeds
Replays(game) ==
    \A i \in 1..Len(game.pgn.movetext) :
        /\ game.pgn.movetext[i] \in
              moves([start |-> game.pgn.fen,
                     played |-> SubSeq(game.pgn.movetext, 1, i - 1)])
        /\ game.pgn.movetext[i] \in moves(PosAfter(game, i - 1))

SideOf(game, user) ==
    IF toLowerCase(game.white.username) = toLowerCase(user) THEN "w" ELSE "b"

MateInOne(board) == \E m \in moves(board) : isCheckmate(move(board, m))

\* the plies (counted from 1) before which the subject is to move and has a
\* mate in one
Opportunities(game, user) ==
    {i \in 1..Len(game.pgn.movetext) :
        /\ turn(PosAfter(game, i - 1)) = SideOf(game, user)
        /\ MateInOne(PosAfter(game, i - 1))}

ExpectedPlayed(game, user) ==
    Cardinality({i \in Opportunities(game, user) : isCheckmate(PosAfter(game, i))})

ExpectedMissed(game, user) ==
    Cardinality({i \in Opportunities(game, user) : ~isCheckmate(PosAfter(game, i))})

\* the sampled records: all of them for a batch within the cap
Sampled(gs) == IF Len(gs) <= 100 THEN gs ELSE Sample(gs)

\* the counters a batch should give when only the records that replay count
PlayedOfReplayed(gs, user) ==
    LET sample == Sampled(gs)
    IN  SumRange([i \in 1..Len(sample) |->
                    IF Replays(sample[i]) THEN ExpectedPlayed(sample[i], user) ELSE 0],
                 1, Len(sample))

MissedOfReplayed(gs, user) ==
    LET sample == Sampled(gs)
    IN  SumRange([i \in 1..Len(sample) |->
                    IF Replays(sample[i]) THEN ExpectedMissed(sample[i], user) ELSE 0],
                 1, Len(sample))

AllReplay(gs) == \A i \in 1..Len(gs) : Replays(gs[i])

\* C4: when every sampled game replays, matesPlayed is the number of plies
\* of the sampled games at which the subject is to move, has a mate in one
\* and plays a mating move, and missedMates the number of those at which the
\* played move does not mate; no other ply counts.
C4_MateCounters ==
    (pc = "done" /\ AllReplay(games)) =>
        /\ out.matesPlayed = PlayedOfReplayed(games, username)
        /\ out.missedMates = MissedOfReplayed(games, username)

C4_Witness ==
    /\ pc = "done"
    /\ AllReplay(games)
    /\ out.matesPlayed >= 1
    /\ out.missedMates >= 1
    /\ \E i \in 1..Len(games) : SideOf(games[i], username) = "w"

\* C5: gamesAnalyzed is min(number of records, 100), whether or not the
\* sampled records replay, and the empty batch gives three zeros.
C5_GamesAnalyzed ==
    pc = "done" =>
        /\ out.gamesAnalyzed = IF Len(games) < 100 THEN Len(games) ELSE 100
        /\ games = <<>> =>
              out = [gamesAnalyzed |-> 0, missedMates |-> 0, matesPlayed |-> 0]

\* a batch of more than 100 records whose most recent record fails to replay
C5_Witness ==
    /\ pc = "done"
    /\ Len(games) > 100
    /\ out.gamesAnalyzed = 100
    /\ \E i \in 1..Len(games) :
          /\ ~Replays(games[i])
          /\ \A j \in 1..Len(games) : j # i => games[j].end_time < games[i].end_time

Count(s, r) == Cardinality({i \in 1..Len(s) : s[i] = r})

IsPermutation(s, t) ==
    /\ Len(s) = Len(t)
    /\ \A r \in Range(s) \cup Range(t) : Count(s, r) = Count(t, r)

\* os holds the same 100 most recent records as gs, in any order, and
\* otherwise only records older than those
SameRecent(gs, os) ==
    LET c == CutTime(gs)
    IN  /\ \A r \in Range(gs) \cup Range(os) :
              r.end_time >= c => Count(gs, r) = Count(os, r)
        /\ Len(gs) <= 100 => Len(os) = Len(gs)

SameCounters(a, b) ==
    a.missedMates = b.missedMates /\ a.matesPlayed = b.matesPlayed

\* C6 as stated: the order of the input array has no influence on the
\* counters (violated when end_times tie across the cut of the sample)
C6_AnyOrder ==
    (pc = "done" /\ AllReplay(games) /\ IsPermutation(games, other)) =>
        SameCounters(out, outOther)

\* C6, amended: when the 100 most recent records are determined (no record
\* outside them has the end_time of one of them), the counters depend on
\* those 100 records only, whatever the order of the array and whatever the
\* older records are.
C6_RecentOnly ==
    (pc = "done" /\ HasCleanCut(games) /\ SameRecent(games, other)) =>
        SameCounters(out, outOther)

\* a batch of more than 100 records with a mate among the recent ones,
\* compared with a batch whose older records are mating games instead
C6_Witness ==
    /\ pc = "done"
    /\ Len(games) > 100
    /\ HasCleanCut(games)
    /\ SameRecent(games, other)
    /\ out.missedMates + out.matesPlayed > 0
    /\ \E i \in 1..Len(other) :
          /\ other[i].end_time < CutTime(games)
          /\ ExpectedPlayed(other[i], username) > 0
          /\ other[i] # games[i]

\* C7: a sampled record whose replay fails contributes nothing to the
\* counters, and the records after it are still processed: the counters are
\* those of the sampled records that replay.
C7_FailedContributesNothing ==
    pc = "done" =>
        /\ out.matesPlayed = PlayedOfReplayed(games, username)
        /\ out.missedMates = MissedOfReplayed(games, username)

\* ------------------------------------------------------------------------
\* tactics.worker.ts and useTacticsWorker
\* ------------------------------------------------------------------------

\* the batches and subjects the component is rendered with; ref tells two
\* arrays apart that hold the same records (the effect compares its
\* dependencies by identity)
HookBatches ==
    {<<>>,
     <<Rec("fools", "b", 1)>>,
     <<Rec("missed", "b", 1), Rec("fools", "b", 2)>>}

HookInputs ==
    {[games |-> g, ref |-> r, username |-> u] :
        g \in HookBatches, r \in 1..2, u \in {"alice", "bob"}}

\* the most workers a run of the model creates
MaxWorkers == 2

\* worker.postMessage({ games, username })
Request(in) == [games |-> in.games, username |-> in.username]

\* the handler's messages with a progress message before the result
ReplyWithProgress(req) ==
    <<[gamesAnalyzed |-> 0, missedMates |-> 0, matesPlayed |-> 0],
      computeTacticsStats(req.games, req.username)>>

\* self.onmessage: the messages the handler posts for one request
WorkerReply(req) == <<computeTacticsStats(req.games, req.username)>>

\* the handler's messages for each request the hook can send, tabulated so
\* that the handler is evaluated once for each request
Replies == {<<Request(in), WorkerReply(Request(in))>> : in \in HookInputs}

ReplyTo(req) == (CHOOSE p \in Replies : p[1] = req)[2]

\* new Worker(...), worker.onmessage = ..., worker.postMessage(request)
NewWorker(in) ==
    [req     |-> Request(in),
     alive   |-> TRUE,
     inbox   |-> <<Request(in)>>,   \* posted to the worker, not handled yet
     outbox  |-> <<>>,              \* posted by the worker, not dispatched yet
     handled |-> 0,                 \* requests the worker's handler has run for
     posted  |-> <<>>]              \* every message the worker has posted

\* a terminate() that leaves the worker's posted messages to be dispatched
terminateKeepingMessages(w) == [w EXCEPT !.alive = FALSE, !.inbox = <<>>]

\* worker.terminate(): the worker stops and the messages it posted that
\* have not been dispatched are discarded
terminate(w) == [w EXCEPT !.alive = FALSE, !.inbox = <<>>, !.outbox = <<>>]

\* an effect without a cleanup
NoCleanup(ws, c) == ws

\* the cleanup the effect returned: () => { worker.terminate() }, or none
\* when the effect returned early
Cleanup(ws, c) ==
    IF c = 0 THEN ws ELSE [ws EXCEPT ![c] = terminate(@)]

HookInit ==
    /\ inputs \in HookInputs
    /\ deps = NoDeps
    /\ effPending = TRUE
    /\ mounted = TRUE
    /\ stats = Null
    /\ loading = FALSE
    /\ statsFrom = 0
    /\ workers = <<>>
    /\ cur = 0
    /\ games = <<>>
    /\ other = <<>>
    /\ username = "none"
    /\ out = Null
    /\ outOther = Null
    /\ pc = "idle"
    /\ AppIdle

\* a render with other (games, username): React runs the pending effects of
\* the last render before it renders again
Render(new) ==
    /\ mounted
    /\ ~effPending
    /\ new # inputs
    /\ new.games = <<>> \/ Len(workers) < MaxWorkers
    /\ inputs' = new
    /\ effPending' = TRUE
    /\ UNCHANGED <<deps, mounted, stats, loading, statsFrom, workers, cur>>
    /\ UNCHANGED <<pureVars, appVars>>

\* the effect without its early return for an empty list
RunEffectForAnyList ==
    /\ mounted
    /\ effPending
    /\ effPending' = FALSE
    /\ deps' = inputs
    /\ stats' = Null
    /\ statsFrom' = 0
    /\ loading' = TRUE
    /\ workers' = Append(Cleanup(workers, cur), NewWorker(inputs))
    /\ cur' = Len(workers) + 1
    /\ UNCHANGED <<inputs, mounted>>
    /\ UNCHANGED <<pureVars, appVars>>

\* the effect of the last render: the previous effect's cleanup, then the
\* effect's body
RunEffect ==
    /\ mounted
    /\ effPending
    /\ effPending' = FALSE
    /\ deps' = inputs
    /\ stats' = Null
    /\ statsFrom' = 0
    /\ IF inputs.games = <<>>
       THEN /\ loading' = FALSE
            /\ workers' = Cleanup(workers, cur)
            /\ cur' = 0
       ELSE /\ loading' = TRUE
            /\ workers' = Append(Cleanup(workers, cur), NewWorker(inputs))
            /\ cur' = Len(workers) + 1
    /\ UNCHANGED <<inputs, mounted>>
    /\ UNCHANGED <<pureVars, appVars>>

\* tactics.worker.ts, self.onmessage
WorkerOnMessage(w) ==
    /\ workers[w].alive
    /\ workers[w].inbox # <<>>
    /\ LET reply == ReplyTo(Head(workers[w].inbox))
       IN  workers' = [workers EXCEPT ![w].inbox = Tail(@),
                                      ![w].handled = @ + 1,
                                      ![w].outbox = @ \o reply,
                                      ![w].posted = @ \o reply]
    /\ UNCHANGED <<inputs, deps, effPending, mounted, stats, loading, statsFrom, cur>>
    /\ UNCHANGED <<pureVars, appVars>>

\* a worker.onmessage that drops the message
HookDropsMessage(w) ==
    /\ workers[w].outbox # <<>>
    /\ workers' = [workers EXCEPT ![w].outbox = Tail(@)]
    /\ UNCHANGED <<inputs, deps, effPending, mounted, stats, loading, statsFrom, cur>>
    /\ UNCHANGED <<pureVars, appVars>>

\* useTacticsWorker, worker.onmessage: a message of worker w is dispatched
HookOnMessage(w) ==
    /\ workers[w].outbox # <<>>
    /\ stats' = Head(workers[w].outbox)
    /\ loading' = FALSE
    /\ statsFrom' = w
    /\ workers' = [workers EXCEPT ![w].outbox = Tail(@)]
    /\ UNCHANGED <<inputs, deps, effPending, mounted, cur>>
    /\ UNCHANGED <<pureVars, appVars>>

\* the component unmounts: the cleanup of the effect that ran last
Unmount ==
    /\ mounted
    /\ mounted' = FALSE
    /\ workers' = Cleanup(workers, cur)
    /\ UNCHANGED <<inputs, deps, effPending, stats, loading, statsFrom, cur>>
    /\ UNCHANGED <<pureVars, appVars>>

Next ==
    \/ \E new \in HookInputs : Render(new)
    \/ RunEffect
    \/ \E w \in 1..Len(workers) : WorkerOnMessage(w)
    \/ \E w \in 1..Len(workers) : HookOnMessage(w)
    \/ Unmount

Init == HookInit

Spec == Init /\ [][Next]_vars

\* a worker that is alive runs its handler for a message it was sent
FairSpec ==
    Spec /\ \A w \in 1..MaxWorkers : WF_vars(w <= Len(workers) /\ WorkerOnMessage(w))

Alive == {w \in 1..Len(workers) : workers[w].alive}

\* C1 as stated: whenever stats is not null it is the response of the
\* worker created for the (games, username) the hook is rendered with.
C1_CurrentInputs ==
    stats # Null =>
        /\ cur # 0
        /\ statsFrom = cur
        /\ deps = inputs
        /\ stats = computeTacticsStats(inputs.games, inputs.username)

\* C1: whenever stats is not null it is the response of the worker of the
\* latest invocation (the last run of the effect), computed for that
\* invocation's (games, username), and these are the hook's current inputs
\* unless a render has changed them and its effect has not run yet; no
\* response of an earlier worker is in stats once a new invocation started.
C1_OnlyCurrentResponse ==
    stats # Null =>
        /\ cur # 0
        /\ statsFrom = cur
        /\ workers[cur].req = Request(deps)
        /\ stats = computeTacticsStats(deps.games, deps.username)
        /\ ~effPending => deps = inputs

\* the response of the second worker is in stats, after the first worker
\* had handled another request and was superseded
C1_Witness ==
    /\ stats # Null
    /\ statsFrom = 2
    /\ workers[1].handled = 1
    /\ workers[1].req # workers[2].req
    /\ stats # computeTacticsStats(workers[1].req.games, workers[1].req.username)

\* C2: at most one worker is alive, and it is the one the registered
\* cleanup terminates; after unmount none is.
C2_AtMostOneWorker ==
    /\ Cardinality(Alive) <= 1
    /\ Alive \subseteq {cur}
    /\ ~mounted => Alive = {}

C2_Witness ==
    /\ Len(workers) >= 2
    /\ workers[2].alive
    /\ ~workers[1].alive
    /\ workers[1].handled = 0

\* every message a worker has posted answers a request its handler has run
\* for: one message for each, carrying the TacticsStats of the request
OneResponsePerRequest ==
    \A w \in 1..Len(workers) :
        /\ Len(workers[w].posted) = workers[w].handled
        /\ \A k \in 1..Len(workers[w].posted) :
              workers[w].posted[k] =
                  computeTacticsStats(workers[w].req.games, workers[w].req.username)

Waiting(w) == w <= Len(workers) /\ workers[w].inbox # <<>>

Answered(w) == w <= Len(workers) /\ Len(workers[w].posted) = 1

Terminated(w) == w <= Len(workers) /\ ~workers[w].alive

\* C3: a worker that is not terminated answers the request it was sent; at
\* every moment it has posted exactly one message for each request its
\* handler has run for, each the TacticsStats of the request, and no other
\* message.
C3_OneResponsePerRequest ==
    /\ []OneResponsePerRequest
    /\ \A w \in 1..MaxWorkers : Waiting(w) ~> (Answered(w) \/ Terminated(w))

C3_Witness ==
    \E w \in 1..Len(workers) :
        /\ workers[w].handled = 1
        /\ Len(workers[w].posted) = 1
        /\ workers[w].posted[1].matesPlayed = 1
        /\ workers[w].posted[1].gamesAnalyzed = 2

\* ------------------------------------------------------------------------
\* Numbers: the IEEE 754 doubles of (wins / total) * 100 and Math.round
\* ------------------------------------------------------------------------

\* a double's significand has 53 bits: a leading one and four digits of
\* DigitBits bits each
DigitBits == 13

Base == 2 ^ DigitBits

Digits == 4

\* a double is NaN, Infinity, zero, or m * 2^(exp - 52) with the significand
\* m, 2^52 <= m < 2^53, given by its digits to the base 2^13, the leading
\* one first
NaN == [kind |-> "nan", digits |-> <<>>, exp |-> 0]

Infinity == [kind |-> "inf", digits |-> <<>>, exp |-> 0]

Zero == [kind |-> "zero", digits |-> <<>>, exp |-> 0]

Front(s) == SubSeq(s, 1, Len(s) - 1)

Last(s) == s[Len(s)]

RECURSIVE IncDigits(_)
\* the digits of m + 1; the leading digit takes the carry
IncDigits(ds) ==
    IF Len(ds) = 1 THEN <<ds[1] + 1>>
    ELSE IF Last(ds) < Base - 1 THEN Front(ds) \o <<Last(ds) + 1>>
    ELSE IncDigits(Front(ds)) \o <<0>>

\* round to nearest, ties to even: kept is the significand cut off, up
\* says that what was cut off is more than half a unit of its last bit,
\* tie that it is exactly half
RoundDigits(kept, exp, up, tie) ==
    LET inc == up \/ (tie /\ Last(kept) % 2 = 1)
        sum == IF inc THEN IncDigits(kept) ELSE kept
    IN  IF sum[1] = 2
        THEN [kind |-> "num", digits |-> <<1>> \o Tail(sum), exp |-> exp + 1]
        ELSE [kind |-> "num", digits |-> sum, exp |-> exp]

RECURSIVE ScaleUp(_, _, _)
\* a * 2^(-e) brought into [b, 2b)
ScaleUp(a, b, e) ==
    IF a >= b THEN [a |-> a, e |-> e] ELSE ScaleUp(2 * a, b, e - 1)

RECURSIVE ScaleDown(_, _, _)
ScaleDown(a, b, e) ==
    IF a < 2 * b THEN [b |-> b, e |-> e] ELSE ScaleDown(a, 2 * b, e + 1)

RECURSIVE QuotDigits(_, _, _)
\* the next n digits of the quotient rem / b, and the remainder after them
QuotDigits(rem, b, n) ==
    IF n = 0 THEN [digits |-> <<>>, rem |-> rem]
    ELSE LET digit == (rem * Base) \div b
             rest == QuotDigits((rem * Base) % b, b, n - 1)
         IN  [digits |-> <<digit>> \o rest.digits, rem |-> rest.rem]

\* a / b of two counts, as the double the division yields
fdiv(a, b) ==
    IF b = 0 THEN (IF a = 0 THEN NaN ELSE Infinity)
    ELSE IF a = 0 THEN Zero
    ELSE LET dn == ScaleDown(a, b, 0)
             up == ScaleUp(a, dn.b, dn.e)
             q == QuotDigits(up.a - dn.b, dn.b, Digits)
         IN  RoundDigits(<<1>> \o q.digits, up.e, 2 * q.rem > dn.b, 2 * q.rem = dn.b)

RECURSIVE MulDigits(_, _)
\* the digits of m * k, the carries gathered in the leading digit
MulDigits(ds, k) ==
    IF Len(ds) = 1 THEN <<ds[1] * k>>
    ELSE LET v == Last(ds) * k
             upper == MulDigits(Front(ds), k)
         IN  Front(upper) \o <<Last(upper) + (v \div Base), v % Base>>

RECURSIVE Carry(_)
\* the digits below the leading one brought below Base
Carry(ds) ==
    IF Len(ds) = 1 THEN ds
    ELSE LET upper == Front(ds)
         IN  Carry(Front(upper) \o <<Last(upper) + (Last(ds) \div Base)>>)
                 \o <<Last(ds) % Base>>

BitLen(n) == CHOOSE l \in 1..30 : 2 ^ (l - 1) <= n /\ n < 2 ^ l

\* x * k for a double x and an integer k, 0 < k < Base, as the double the
\* multiplication yields
fmul(x, k) ==
    IF x.kind # "num" THEN x
    ELSE LET prod == Carry(MulDigits(x.digits, k))
             extra == BitLen(prod[1]) - 1
             cut == 2 ^ extra
             kept == [i \in 1..Len(prod) |->
                         IF i = 1 THEN prod[1] \div cut
                         ELSE (prod[i] \div cut) + ((prod[i - 1] % cut) * (Base \div cut))]
             dropped == Last(prod) % cut
         IN  RoundDigits(SubSeq(kept, 1, Len(prod)), x.exp + extra,
                         2 * dropped > cut, extra > 0 /\ 2 * dropped = cut)

\* the result of Math.round when it is not a number
NotANumber == -1

\* Math.round(x) = floor(x + 0.5) for a double x, 0 <= x < 2^25
MathRound(x) ==
    IF x.kind = "nan" THEN NotANumber
    ELSE IF x.kind = "zero" THEN 0
    ELSE IF x.exp < -1 THEN 0
    ELSE LET top == (x.digits[1] * Base + x.digits[2]) * Base + x.digits[3]
         IN  (top \div (2 ^ (2 * DigitBits - x.exp)))
                 + ((top \div (2 ^ (2 * DigitBits - 1 - x.exp))) % 2)

\* ------------------------------------------------------------------------
\* Result counts and percentages
\* ------------------------------------------------------------------------

\* const draws = [...]
draws == {"agreed", "repetition", "stalemate", "insufficient", "50move",
          "timevsinsufficient"}

\* a getResult that reads the outcome code of White whoever the subject is
getResultOfWhite(game, user) ==
    IF game.white.result = "win" THEN "win"
    ELSE IF game.white.result \in draws THEN "draw"
    ELSE "loss"

\* getResult: the outcome code of the side playedAsWhite selects
getResult(game, user) ==
    LET asWhite == playedAsWhite(game, user)
        result == IF asWhite THEN game.white.result ELSE game.black.result
    IN  IF result = "win" THEN "win"
        ELSE IF result \in draws THEN "draw"
        ELSE "loss"

\* winPct: if (total === 0) return 0; Math.round((wins / total) * 100)
winPct(wins, total) ==
    IF total = 0 THEN 0 ELSE MathRound(fmul(fdiv(wins, total), 100))

makeResultCounts(wins, losses, draws_) ==
    LET total == wins + losses + draws_
    IN  [wins |-> wins, losses |-> losses, draws |-> draws_, total |-> total,
         winPct |-> winPct(wins, total),
         lossPct |-> winPct(losses, total),
         drawPct |-> winPct(draws_, total)]

\* a tally that counts every game that is not a win as a loss
TallyNoDraws(cnt, r) ==
    IF r = "win" THEN [cnt EXCEPT !.wins = @ + 1]
    ELSE [cnt EXCEPT !.losses = @ + 1]

\* if (r === 'win') wins++; else if (r === 'loss') losses++; else draws++
Tally(cnt, r) ==
    IF r = "win" THEN [cnt EXCEPT !.wins = @ + 1]
    ELSE IF r = "loss" THEN [cnt EXCEPT !.losses = @ + 1]
    ELSE [cnt EXCEPT !.draws = @ + 1]

RECURSIVE ResultLoop(_, _, _, _, _)
\* for (const game of games) { ... }: the iterations lo..hi in order,
\* starting from the tallies cnt (the range is halved as in SampleLoop)
ResultLoop(gs, lo, hi, user, cnt) ==
    IF lo > hi THEN cnt
    ELSE IF lo = hi THEN Tally(cnt, getResult(gs[lo], user))
    ELSE LET mid == (lo + hi) \div 2
             first == ResultLoop(gs, lo, mid, user, cnt)
         IN  IF first.wins >= 0
             THEN ResultLoop(gs, mid + 1, hi, user, first)
             ELSE first

computeResultCounts(gs, user) ==
    LET cnt == ResultLoop(gs, 1, Len(gs), user, [wins |-> 0, losses |-> 0, draws |-> 0])
    IN  makeResultCounts(cnt.wins, cnt.losses, cnt.draws)

\* ------------------------------------------------------------------------
\* Strings.  A string is the sequence of its characters; the functions of
\* gameAnalysis.ts that read game.pgn work on that sequence.
\* ------------------------------------------------------------------------

Digit == {"0", "1", "2", "3", "4", "5", "6", "7", "8", "9"}

Letter ==
    {"a", "b", "c", "d", "e", "f", "g", "h", "i", "j", "k", "l", "m",
     "n", "o", "p", "q", "r", "s", "t", "u", "v", "w", "x", "y", "z",
     "A", "B", "C", "D", "E", "F", "G", "H", "I", "J", "K", "L", "M",
     "N", "O", "P", "Q", "R", "S", "T", "U", "V", "W", "X", "Y", "Z"}

\* \w and \s of the regular expressions
WordChar == Letter \cup Digit \cup {"_"}
Space == {" ", "\n", "\t"}

Least(S) == CHOOSE x \in S : \A y \in S : x <= y

\* the positions of text that hold a character of the set cs
PositionsOf(text, cs) == {i \in 1..Len(text) : text[i] \in cs}

\* pat occurs in text at position i
MatchesAt(text, pat, i) ==
    /\ i >= 1
    /\ i + Len(pat) - 1 <= Len(text)
    /\ \A k \in 1..Len(pat) : text[i + k - 1] = pat[k]

\* the characters of text at the positions i with mark[i], in order
RECURSIVE KeepRange(_, _, _, _)
KeepRange(text, mark, lo, hi) ==
    IF lo > hi THEN <<>>
    ELSE IF lo = hi THEN (IF mark[lo] THEN <<text[lo]>> ELSE <<>>)
    ELSE LET mid == (lo + hi) \div 2
         IN  KeepRange(text, mark, lo, mid) \o KeepRange(text, mark, mid + 1, hi)

\* text without the characters at the positions of gone
Without(text, gone) ==
    LET mark == SubSeq([i \in 1..Len(text) |-> i \notin gone], 1, Len(text))
    IN  KeepRange(text, mark, 1, Len(text))

\* the first position from lo on that holds a character of cs, Len(text) + 1
\* when there is none
FirstIn(text, lo, cs) ==
    CHOOSE k \in lo..(Len(text) + 1) :
        /\ k = Len(text) + 1 \/ text[k] \in cs
        /\ \A j \in lo..(k - 1) : text[j] \notin cs

\* the first position from lo on that holds a character outside cs
FirstOut(text, lo, cs) ==
    CHOOSE k \in lo..(Len(text) + 1) :
        /\ k = Len(text) + 1 \/ text[k] \notin cs
        /\ \A j \in lo..(k - 1) : text[j] \in cs

\* the concatenation of the strings of ss
RECURSIVE FlattenRange(_, _, _)
FlattenRange(ss, lo, hi) ==
    IF lo > hi THEN <<>>
    ELSE IF lo = hi THEN ss[lo]
    ELSE LET mid == (lo + hi) \div 2
         IN  FlattenRange(ss, lo, mid) \o FlattenRange(ss, mid + 1, hi)

Flatten(ss) == FlattenRange(ss, 1, Len(ss))

\* String.prototype.trim
trim(text) ==
    LET first == FirstOut(text, 1, Space)
        trailing == {i \in PositionsOf(text, Space) : FirstOut(text, i, Space) > Len(text)}
    IN  SubSeq(text, first, Len(text) - Cardinality(trailing))

\* \b between the characters at positions p - 1 and p of text
WordBoundary(text, p) ==
    (p - 1 >= 1 /\ text[p - 1] \in WordChar) # (p <= Len(text) /\ text[p] \in WordChar)

\* /\bpat\b/.test(text), for a pattern without operators
TestWord(text, pat) ==
    \E i \in PositionsOf(text, {pat[1]}) :
        /\ MatchesAt(text, pat, i)
        /\ WordBoundary(text, i)
        /\ WordBoundary(text, i + Len(pat))

\* the positions a global replace of /o[^c]*c/ removes, for the characters
\* o and c: from an o to the first c after it
Enclosed(text, o, c) ==
    UNION {k..FirstIn(text, k, {c}) : k \in {k \in PositionsOf(text, {o}) :
                                              FirstIn(text, k, {c}) <= Len(text)}}

\* the positions a global replace of /\[[^\]]*\]\s*/ removes: what "[" and
\* "]" enclose, and the white space that follows the "]"
TagPositions(text) ==
    LET tags == Enclosed(text, "[", "]")
        ends == {i \in tags : text[i] = "]"}
    IN  tags \cup UNION {(e + 1)..(FirstOut(text, e + 1, Space) - 1) : e \in ends}

\* pgn.replace(/\[[^\]]*\]\s*/g, '')
stripHeaderTags(text) == Without(text, TagPositions(text))

\* the characters of the strings the records are written with
Chars(s) ==
    CASE s = "" -> <<>>
      [] s = "e4" -> <<"e", "4">>
      [] s = "e5" -> <<"e", "5">>
      [] s = "d4" -> <<"d", "4">>
      [] s = "d5" -> <<"d", "5">>
      [] s = "O-O" -> <<"O", "-", "O">>
      [] s = "O-O-O" -> <<"O", "-", "O", "-", "O">>
      [] s = " {[%clk 0:02:58.6]}" ->
           <<" ", "{", "[", "%", "c", "l", "k", " ", "0", ":", "0", "2", ":", "5", "8", ".",
             "6", "]", "}">>
      [] s = "ECO" -> <<"E", "C", "O">>
      [] s = "Opening" -> <<"O", "p", "e", "n", "i", "n", "g">>
      [] s = "ECOUrl" -> <<"E", "C", "O", "U", "r", "l">>
      [] s = "/openings/" -> <<"/", "o", "p", "e", "n", "i", "n", "g", "s", "/">>
      [] s = "Unknown" -> <<"U", "n", "k", "n", "o", "w", "n">>
      [] s = "Unknown Opening" ->
           <<"U", "n", "k", "n", "o", "w", "n", " ", "O", "p", "e", "n", "i", "n", "g">>
      [] s = "C60" -> <<"C", "6", "0">>
      [] s = "D02" -> <<"D", "0", "2">>
      [] s = "B10" -> <<"B", "1", "0">>
      [] s = "Ruy Lopez" -> <<"R", "u", "y", " ", "L", "o", "p", "e", "z">>
      [] s = "Spanish Game" -> <<"S", "p", "a", "n", "i", "s", "h", " ", "G", "a", "m", "e">>
      [] s = "https://www.chess.com/openings/Queens-Pawn-Game-2.Nf3-Nf6" ->
           <<"h", "t", "t", "p", "s", ":", "/", "/", "w", "w", "w", ".", "c", "h", "e", "s",
             "s", ".", "c", "o", "m", "/", "o", "p", "e", "n", "i", "n", "g", "s", "/", "Q",
             "u", "e", "e", "n", "s", "-", "P", "a", "w", "n", "-", "G", "a", "m", "e", "-",
             "2", ".", "N", "f", "3", "-", "N", "f", "6">>
      [] s = "https://www.chess.com/openings/Caro-Kann-Defense" ->
           <<"h", "t", "t", "p", "s", ":", "/", "/", "w", "w", "w", ".", "c", "h", "e", "s",
             "s", ".", "c", "o", "m", "/", "o", "p", "e", "n", "i", "n", "g", "s", "/", "C",
             "a", "r", "o", "-", "K", "a", "n", "n", "-", "D", "e", "f", "e", "n", "s", "e">>
      [] s = "https://www.chess.com/openings/Ruy-Lopez-Opening" ->
           <<"h", "t", "t", "p", "s", ":", "/", "/", "w", "w", "w", ".", "c", "h", "e", "s",
             "s", ".", "c", "o", "m", "/", "o", "p", "e", "n", "i", "n", "g", "s", "/", "R",
             "u", "y", "-", "L", "o", "p", "e", "z", "-", "O", "p", "e", "n", "i", "n", "g">>
      [] s = "https://www.chess.com/openings/" ->
           <<"h", "t", "t", "p", "s", ":", "/", "/", "w", "w", "w", ".", "c", "h", "e", "s",
             "s", ".", "c", "o", "m", "/", "o", "p", "e", "n", "i", "n", "g", "s", "/">>
      [] s = "https://www.chess.com/games" ->
           <<"h", "t", "t", "p", "s", ":", "/", "/", "w", "w", "w", ".", "c", "h", "e", "s",
             "s", ".", "c", "o", "m", "/", "g", "a", "m", "e", "s">>
      [] s = "https://www.chess.com/openings/2.Nf3-Nf6" ->
           <<"h", "t", "t", "p", "s", ":", "/", "/", "w", "w", "w", ".", "c", "h", "e", "s",
             "s", ".", "c", "o", "m", "/", "o", "p", "e", "n", "i", "n", "g", "s", "/", "2",
             ".", "N", "f", "3", "-", "N", "f", "6">>
      [] s = "https://www.chess.com/openings/Sicilian-Defense-2...Nc6-3.d4" ->
           <<"h", "t", "t", "p", "s", ":", "/", "/", "w", "w", "w", ".", "c", "h", "e", "s",
             "s", ".", "c", "o", "m", "/", "o", "p", "e", "n", "i", "n", "g", "s", "/", "S",
             "i", "c", "i", "l", "i", "a", "n", "-", "D", "e", "f", "e", "n", "s", "e", "-",
             "2", ".", ".", ".", "N", "c", "6", "-", "3", ".", "d", "4">>
      [] s = "https://www.chess.com/openings/Kings-Gambit-1900-Line" ->
           <<"h", "t", "t", "p", "s", ":", "/", "/", "w", "w", "w", ".", "c", "h", "e", "s",
             "s", ".", "c", "o", "m", "/", "o", "p", "e", "n", "i", "n", "g", "s", "/", "K",
             "i", "n", "g", "s", "-", "G", "a", "m", "b", "i", "t", "-", "1", "9", "0", "0",
             "-", "L", "i", "n", "e">>
      [] s = "Queens Pawn Game" ->
           <<"Q", "u", "e", "e", "n", "s", " ", "P", "a", "w", "n", " ", "G", "a", "m", "e">>
      [] s = "Caro Kann Defense" ->
           <<"C", "a", "r", "o", " ", "K", "a", "n", "n", " ", "D", "e", "f", "e", "n", "s",
             "e">>
      [] s = "Sicilian Defense" ->
           <<"S", "i", "c", "i", "l", "i", "a", "n", " ", "D", "e", "f", "e", "n", "s", "e">>
      [] s = "Kings Gambit 1900 Line" ->
           <<"K", "i", "n", "g", "s", " ", "G", "a", "m", "b", "i", "t", " ", "1", "9", "0",
             "0", " ", "L", "i", "n", "e">>
      [] s = "A00" -> <<"A", "0", "0">>
      [] s = "A01" -> <<"A", "0", "1">>
      [] s = "A02" -> <<"A", "0", "2">>
      [] s = "A03" -> <<"A", "0", "3">>
      [] s = "A04" -> <<"A", "0", "4">>
      [] s = "A05" -> <<"A", "0", "5">>
      [] s = "A06" -> <<"A", "0", "6">>
      [] s = "A07" -> <<"A", "0", "7">>
      [] s = "A08" -> <<"A", "0", "8">>
      [] s = "A09" -> <<"A", "0", "9">>
      [] s = "A10" -> <<"A", "1", "0">>
      [] s = "A11" -> <<"A", "1", "1">>
      [] s = "A12" -> <<"A", "1", "2">>
      [] s = "*" -> <<"*">>
      [] s = "1-0" -> <<"1", "-", "0">>
      [] s = "0-1" -> <<"0", "-", "1">>
      [] s = "1/2-1/2" -> <<"1", "/", "2", "-", "1", "/", "2">>
      [] s = "Nf3" -> <<"N", "f", "3">>
      [] s = "Nc6" -> <<"N", "c", "6">>
      [] s = "Bc4" -> <<"B", "c", "4">>
      [] s = "Nf6" -> <<"N", "f", "6">>
      [] s = "Ng1" -> <<"N", "g", "1">>
      [] s = "Ng8" -> <<"N", "g", "8">>
      [] s = "O-O+" -> <<"O", "-", "O", "+">>
      [] s = "O-O-O#" -> <<"O", "-", "O", "-", "O", "#">>
      [] s = "Bb5" -> <<"B", "b", "5">>
      [] s = "a6" -> <<"a", "6">>
      [] s = "Re1" -> <<"R", "e", "1">>
      [] s = "Ke7" -> <<"K", "e", "7">>
      [] s = "Ke2" -> <<"K", "e", "2">>
      [] s = "Kd2" -> <<"K", "d", "2">>
      [] s = "Qh4" -> <<"Q", "h", "4">>
      [] s = "Qh5" -> <<"Q", "h", "5">>
      [] s = "Qe7" -> <<"Q", "e", "7">>
      [] s = "exd5" -> <<"e", "x", "d", "5">>
      [] s = "e8=Q" -> <<"e", "8", "=", "Q">>
      [] s = "--" -> <<"-", "-">>
      [] s = "White" -> <<"W", "h", "i", "t", "e">>
      [] s = "Date" -> <<"D", "a", "t", "e">>
      [] s = "alice" -> <<"a", "l", "i", "c", "e">>
      [] s = "2024.01.15" -> <<"2", "0", "2", "4", ".", "0", "1", ".", "1", "5">>
      [] s = "!" -> <<"!">>
      [] s = " $1" -> <<" ", "$", "1">>
      [] s = " $142" -> <<" ", "$", "1", "4", "2">>
      [] s = " {the Ruy Lopez (Spanish)}" ->
           <<" ", "{", "t", "h", "e", " ", "R", "u", "y", " ", "L", "o", "p", "e", "z", " ",
             "(", "S", "p", "a", "n", "i", "s", "h", ")", "}">>
      [] s = " (3. Bc4 Bc5)" -> <<" ", "(", "3", ".", " ", "B", "c", "4", " ", "B", "c", "5", ")">>
      [] s = " {an aside} (3. d4 $2 exd4)" ->
           <<" ", "{", "a", "n", " ", "a", "s", "i", "d", "e", "}", " ", "(", "3", ".", " ",
             "d", "4", " ", "$", "2", " ", "e", "x", "d", "4", ")">>

\* the field f of the record r, or dflt when r has no such field
Field(r, f, dflt) == IF f \in DOMAIN r THEN r[f] ELSE dflt

DigitChar(d) == <<"0", "1", "2", "3", "4", "5", "6", "7", "8", "9">>[d + 1]

\* the decimal numeral of n
RECURSIVE Decimal(_)
Decimal(n) ==
    IF n < 10 THEN <<DigitChar(n)>>
    ELSE Decimal(n \div 10) \o <<DigitChar(n % 10)>>

\* a header line of the PGN: [Name "value"]
TagLine(tag) ==
    <<"[">> \o Chars(tag.name) \o <<" ", "\"">> \o Chars(tag.value) \o <<"\"", "]", "\n">>

\* the i-th ply of the movetext as the PGN writes it: White's plies carry
\* the move number; with clocks (the PGN of chess.com) Black's plies carry
\* it too and every ply is followed by a clock comment; notes holds what
\* the annotator wrote at each ply
MoveText(pgn, i) ==
    LET clocks == Field(pgn, "clocks", FALSE)
        notes == Field(pgn, "notes", [k \in 1..Len(pgn.movetext) |-> ""])
        number == IF i % 2 = 1 THEN Decimal((i + 1) \div 2) \o <<".", " ">>
                  ELSE IF clocks THEN Decimal(i \div 2) \o <<".", ".", ".", " ">>
                  ELSE <<>>
        clock == IF clocks THEN Chars(" {[%clk 0:02:58.6]}") ELSE <<>>
    IN  number \o Chars(pgn.movetext[i]) \o Chars(notes[i]) \o clock \o <<" ">>

\* game.pgn, the text of the game: the header lines, an empty line, the
\* numbered movetext and the result marker
PgnText(pgn) ==
    LET tags == Field(pgn, "tags", <<>>)
        head == Flatten([i \in 1..Len(tags) |-> TagLine(tags[i])])
        body == Flatten([i \in 1..Len(pgn.movetext) |-> MoveText(pgn, i)])
    IN  head \o (IF tags = <<>> THEN <<>> ELSE <<"\n">>) \o body
            \o Chars(Field(pgn, "result", ""))

\* the tests of detectCastling in the other order
detectKingsideFirst(pgn) ==
    LET movesSection == trim(stripHeaderTags(PgnText(pgn)))
    IN  IF TestWord(movesSection, Chars("O-O")) THEN "kingside"
        ELSE IF TestWord(movesSection, Chars("O-O-O")) THEN "queenside"
        ELSE "none"

\* detectCastling: O-O-O is looked for before O-O, which also matches
\* inside O-O-O
detectCastling(pgn) ==
    LET movesSection == trim(stripHeaderTags(PgnText(pgn)))
    IN  IF TestWord(movesSection, Chars("O-O-O")) THEN "queenside"
        ELSE IF TestWord(movesSection, Chars("O-O")) THEN "kingside"
        ELSE "none"

\* Math.round((count / total) * 100) || 0
castlingPct(count, total) ==
    LET pct == MathRound(fmul(fdiv(count, total), 100))
    IN  IF pct = NotANumber \/ pct = 0 THEN 0 ELSE pct

\* counts[castling]++; if (isWin) wins[castling]++
CastlingStep(acc, game, user) ==
    LET castling == detectCastling(game.pgn)
        isWin == getResult(game, user) = "win"
    IN  [counts |-> [acc.counts EXCEPT ![castling] = @ + 1],
         wins |-> IF isWin THEN [acc.wins EXCEPT ![castling] = @ + 1]
                  ELSE acc.wins]

RECURSIVE CastlingLoop(_, _, _, _, _)
\* the loop of computeCastlingStats over the games lo..hi in order
CastlingLoop(gs, lo, hi, user, acc) ==
    IF lo > hi THEN acc
    ELSE IF lo = hi THEN CastlingStep(acc, gs[lo], user)
    ELSE LET mid == (lo + hi) \div 2
             first == CastlingLoop(gs, lo, mid, user, acc)
         IN  IF first.counts.none >= 0
             THEN CastlingLoop(gs, mid + 1, hi, user, first)
             ELSE first

\* computeCastlingStats with the batch length under the wins as well
castlingStatsOverTotal(gs, user) ==
    LET none == [kingside |-> 0, queenside |-> 0, none |-> 0]
        acc == CastlingLoop(gs, 1, Len(gs), user, [counts |-> none, wins |-> none])
        total == Len(gs)
    IN  [kingsidePct |-> castlingPct(acc.counts.kingside, total),
         queensidePct |-> castlingPct(acc.counts.queenside, total),
         noCastlePct |-> castlingPct(acc.counts.none, total),
         kingsideWinPct |-> winPct(acc.wins.kingside, total),
         queensideWinPct |-> winPct(acc.wins.queenside, total),
         noCastleWinPct |-> winPct(acc.wins.none, total),
         counts |-> acc.counts]

computeCastlingStats(gs, user) ==
    LET none == [kingside |-> 0, queenside |-> 0, none |-> 0]
        acc == CastlingLoop(gs, 1, Len(gs), user, [counts |-> none, wins |-> none])
        counts == acc.counts
        wins == acc.wins
        total == Len(gs)
    IN  [kingsidePct |-> castlingPct(counts.kingside, total),
         queensidePct |-> castlingPct(counts.queenside, total),
         noCastlePct |-> castlingPct(counts.none, total),
         kingsideWinPct |-> winPct(wins.kingside, counts.kingside),
         queensideWinPct |-> winPct(wins.queenside, counts.queenside),
         noCastleWinPct |-> winPct(wins.none, counts.none),
         counts |-> counts]

\* the outcome codes of the records: the win code, the draw codes, codes of
\* losses and codes the mapping does not know
ResultCodes ==
    {"win"} \cup draws \cup {"checkmated", "resigned", "Win", "lose"}

OpponentCode(code) ==
    IF code = "win" THEN "checkmated" ELSE IF code \in draws THEN code ELSE "win"

CastlingText(castle) ==
    CASE castle = "kingside" -> <<"e4", "e5", "O-O">>
      [] castle = "queenside" -> <<"d4", "d5", "O-O-O">>
      [] castle = "both" -> <<"e4", "e5", "O-O", "O-O-O">>
      [] OTHER -> <<"e4", "e5">>

\* a record of a game the subject alice played as White (side "w"), as
\* Black (side "b") or not at all, with the outcome code of the subject (of
\* Black when the subject did not play)
ResultRec(side, code, castle) ==
    [white |-> [username |-> IF side = "w" THEN "ALICE" ELSE "bob",
                result |-> IF side = "w" THEN code ELSE OpponentCode(code)],
     black |-> [username |-> IF side = "b" THEN "alice" ELSE "carol",
                result |-> IF side = "w" THEN OpponentCode(code) ELSE code],
     end_time |-> 1,
     pgn |-> [fen |-> "std", movetext |-> CastlingText(castle)]]

\* the longest batch of arbitrary records
MaxResultLen == 2

ResultRecords ==
    {ResultRec(s, c, "none") : s \in {"w", "b", "nobody"}, c \in ResultCodes}
    \cup {ResultRec("w", "win", c) : c \in {"kingside", "queenside", "both"}}
    \cup {ResultRec("b", "resigned", "kingside")}

\* the length of the batches given by their numbers of wins and draws
MaxGames == 40

\* a batch of n games of the subject: wins won after castling kingside,
\* then d drawn, the rest lost
CountBatch(n, w, d) ==
    [i \in 1..n |->
        ResultRec(IF i % 2 = 0 THEN "w" ELSE "b",
                  IF i <= w THEN "win" ELSE IF i <= w + d THEN "agreed" ELSE "resigned",
                  IF i <= w THEN "kingside" ELSE "none")]

CountBatches ==
    {CountBatch(n, w, d) : n \in (MaxGames - 1)..MaxGames, w \in 0..MaxGames, d \in 0..1}

ResultBatches ==
    SeqsUpTo(ResultRecords, MaxResultLen)
    \cup CountBatches

ResultsInit ==
    /\ HookIdle
    /\ AppIdle
    /\ games \in ResultBatches
    /\ other = <<>>
    /\ username \in {"alice", "ALICE"}
    /\ out = Null
    /\ outOther = Null
    /\ pc = "input"

\* getResult for each record of the batch and computeResultCounts
ResultCountsCall ==
    /\ pc = "input"
    /\ out' = [results |-> [i \in 1..Len(games) |-> getResult(games[i], username)],
               counts |-> computeResultCounts(games, username)]
    /\ pc' = "counted"
    /\ UNCHANGED <<games, other, username, outOther>>
    /\ UNCHANGED <<hookVars, appVars>>

CastlingStatsCall ==
    /\ pc = "counted"
    /\ outOther' = computeCastlingStats(games, username)
    /\ pc' = "done"
    /\ UNCHANGED <<games, other, username, out>>
    /\ UNCHANGED <<hookVars, appVars>>

ResultsNext == ResultCountsCall \/ CastlingStatsCall

SpecResults == ResultsInit /\ [][ResultsNext]_vars

\* the subject is on exactly one side of the game
OnOneSide(game, user) ==
    (toLowerCase(game.white.username) = toLowerCase(user))
        # (toLowerCase(game.black.username) = toLowerCase(user))

\* the outcome code of the subject's side
SubjectCode(game, user) ==
    IF toLowerCase(game.white.username) = toLowerCase(user)
    THEN game.white.result
    ELSE game.black.result

DrawCodes ==
    {"agreed", "repetition", "stalemate", "insufficient", "50move",
     "timevsinsufficient"}

\* C8: for every record with the subject on one side getResult is one of
\* win, draw, loss: win exactly for the code 'win', draw exactly for the six
\* draw codes, loss for every other code.
C8_GetResultTotal ==
    pc # "input" =>
        \A i \in 1..Len(games) :
            OnOneSide(games[i], username) =>
                LET code == SubjectCode(games[i], username)
                    r == out.results[i]
                IN  /\ r \in {"win", "draw", "loss"}
                    /\ r = "win" <=> code = "win"
                    /\ r = "draw" <=> code \in DrawCodes
                    /\ r = "loss" <=> code \notin DrawCodes \cup {"win"}

\* a batch with an unknown code, mapped to loss, and the subject's draw as
\* Black against a White whose code is the same
C8_Witness ==
    /\ pc = "counted"
    /\ Len(games) = 2
    /\ OnOneSide(games[1], username) /\ OnOneSide(games[2], username)
    /\ SubjectCode(games[1], username) = "Win" /\ out.results[1] = "loss"
    /\ games[1].white.result = "win"
    /\ SubjectCode(games[2], username) = "50move" /\ out.results[2] = "draw"

CodesIn(S) == {i \in 1..Len(games) : SubjectCode(games[i], username) \in S}

\* C9: for a batch whose records all have the subject on exactly one side,
\* total is the batch length, wins + losses + draws = total, and the three
\* tallies are the numbers of records with the win code, with a draw code
\* and with any other code.
C9_CountsPartition ==
    (pc # "input" /\ \A i \in 1..Len(games) : OnOneSide(games[i], username)) =>
        /\ out.counts.total = Len(games)
        /\ out.counts.wins + out.counts.losses + out.counts.draws = out.counts.total
        /\ out.counts.wins = Cardinality(CodesIn({"win"}))
        /\ out.counts.draws = Cardinality(CodesIn(DrawCodes))
        /\ out.counts.losses =
               Len(games) - Cardinality(CodesIn(DrawCodes \cup {"win"}))

C9_Witness ==
    /\ pc = "counted"
    /\ \A i \in 1..Len(games) : OnOneSide(games[i], username)
    /\ Len(games) = MaxGames
    /\ out.counts.wins > 1
    /\ out.counts.draws = 1
    /\ out.counts.losses > 1

\* 100 * num / den rounded half-up, 0 for den = 0
HalfUp(num, den) ==
    IF den = 0 THEN 0 ELSE (200 * num + den) \div (2 * den)

WinsWith(castle) ==
    Cardinality({i \in 1..Len(games) :
                    /\ detectCastling(games[i].pgn) = castle
                    /\ getResult(games[i], username) = "win"})

\* C10: every percentage of the result counts and of the castling stats is
\* 100 * numerator / denominator rounded half-up, and 0 when the
\* denominator is 0.
C10_HalfUpPercentages ==
    pc = "done" =>
        /\ out.counts.winPct = HalfUp(out.counts.wins, out.counts.total)
        /\ out.counts.lossPct = HalfUp(out.counts.losses, out.counts.total)
        /\ out.counts.drawPct = HalfUp(out.counts.draws, out.counts.total)
        /\ outOther.kingsidePct = HalfUp(outOther.counts.kingside, Len(games))
        /\ outOther.queensidePct = HalfUp(outOther.counts.queenside, Len(games))
        /\ outOther.noCastlePct = HalfUp(outOther.counts.none, Len(games))
        /\ outOther.kingsideWinPct =
               HalfUp(WinsWith("kingside"), outOther.counts.kingside)
        /\ outOther.queensideWinPct =
               HalfUp(WinsWith("queenside"), outOther.counts.queenside)
        /\ outOther.noCastleWinPct = HalfUp(WinsWith("none"), outOther.counts.none)

\* the records of the batch with the castling type castle
CastledAs(castle) == {i \in 1..Len(games) : detectCastling(games[i].pgn) = castle}

\* pct is 100 * num / den to the nearest whole number, either neighbour when
\* it lies halfway, and 0 when den is 0
NearestPercent(pct, num, den) ==
    IF den = 0 THEN pct = 0
    ELSE /\ 2 * ((pct * den) - (100 * num)) <= den
         /\ 2 * ((100 * num) - (pct * den)) <= den

\* C22: computeCastlingStats counts every record under exactly one of
\* kingside, queenside and none, so the counts add up to the batch length;
\* each frequency is a percentage of the batch length, each win percentage
\* a percentage of the count of its own castling type
C22_CastlingDenominators ==
    pc = "done" =>
        /\ outOther.counts.kingside = Cardinality(CastledAs("kingside"))
        /\ outOther.counts.queenside = Cardinality(CastledAs("queenside"))
        /\ outOther.counts.none = Cardinality(CastledAs("none"))
        /\ outOther.counts.kingside + outOther.counts.queenside + outOther.counts.none
               = Len(games)
        /\ NearestPercent(outOther.kingsidePct, outOther.counts.kingside, Len(games))
        /\ NearestPercent(outOther.queensidePct, outOther.counts.queenside, Len(games))
        /\ NearestPercent(outOther.noCastlePct, outOther.counts.none, Len(games))
        /\ NearestPercent(outOther.kingsideWinPct, WinsWith("kingside"),
                          outOther.counts.kingside)
        /\ NearestPercent(outOther.queensideWinPct, WinsWith("queenside"),
                          outOther.counts.queenside)
        /\ NearestPercent(outOther.noCastleWinPct, WinsWith("none"), outOther.counts.none)

\* a batch of MaxGames records of which some castled kingside, all of them
\* won, and the others did not castle and were not won
C22_Witness ==
    /\ pc = "done"
    /\ Len(games) = MaxGames
    /\ outOther.counts.kingside > 1
    /\ outOther.counts.none > 1
    /\ outOther.kingsideWinPct = 100
    /\ outOther.kingsidePct < 50
    /\ outOther.noCastleWinPct = 0

\* ------------------------------------------------------------------------
\* extractOpening and computeOpeningStats
\* ------------------------------------------------------------------------

\* text.match(/\[name "([^"]+)"\]/): the first place where [name " is
\* followed by one or more characters other than a quote, a quote and "]";
\* value is the group
TagMatch(text, name) ==
    LET prefix == <<"[">> \o name \o <<" ", "\"">>
        quotes == PositionsOf(text, {"\""})
        from(i) == i + Len(prefix)
        close(i) == Least({q \in quotes : q >= from(i)})
        matches == {i \in PositionsOf(text, {"["}) :
                       /\ MatchesAt(text, prefix, i)
                       /\ \E q \in quotes : q >= from(i)
                       /\ close(i) > from(i)
                       /\ MatchesAt(text, <<"]">>, close(i) + 1)}
    IN  IF matches = {} THEN [found |-> FALSE, value |-> <<>>]
        ELSE [found |-> TRUE,
              value |-> SubSeq(text, from(Least(matches)), close(Least(matches)) - 1)]

\* url.split('/openings/')[1]: what lies between the first separator and
\* the next one, or undefined (found is FALSE) without a separator
PathOf(url) ==
    LET sep == Chars("/openings/")
        at == {i \in 1..Len(url) : MatchesAt(url, sep, i)}
        first == Least(at)
        next == {i \in at : i >= first + Len(sep)}
    IN  IF at = {} THEN [found |-> FALSE, value |-> <<>>]
        ELSE [found |-> TRUE,
              value |-> SubSeq(url, first + Len(sep),
                               IF next = {} THEN Len(url) ELSE Least(next) - 1)]

\* /^\d+\./.test(part) for the part of path that starts at position s
StartsWithMoveNumber(path, s) ==
    \E d \in 1..(Len(path) - s) :
        /\ \A k \in s..(s + d - 1) : path[k] \in Digit
        /\ path[s + d] = "."

\* parseOpeningNameFromUrl: the parts of the path between hyphens, up to the
\* first part that starts with a move number, joined by spaces
parseOpeningNameFromUrl(url) ==
    LET path == PathOf(url)
        p == path.value
        starts == {1} \cup {h + 1 : h \in PositionsOf(p, {"-"})}
        stops == {s \in starts : StartsWithMoveNumber(p, s)}
        nameParts == IF stops = {} THEN p ELSE SubSeq(p, 1, Least(stops) - 2)
        joined == [i \in 1..Len(nameParts) |->
                      IF nameParts[i] = "-" THEN " " ELSE nameParts[i]]
    IN  IF ~path.found \/ p = <<>> THEN Chars("Unknown Opening")
        ELSE IF joined = <<>> THEN Chars("Unknown Opening")
        ELSE joined

\* extractOpening with the address looked at before the Opening line
extractOpeningUrlFirst(pgn) ==
    LET text == PgnText(pgn)
        ecoMatch == TagMatch(text, Chars("ECO"))
        openingMatch == TagMatch(text, Chars("Opening"))
        ecoUrlMatch == TagMatch(text, Chars("ECOUrl"))
    IN  [eco |-> IF ecoMatch.found THEN ecoMatch.value ELSE Chars("Unknown"),
         name |-> IF ecoUrlMatch.found THEN parseOpeningNameFromUrl(ecoUrlMatch.value)
                  ELSE IF openingMatch.found THEN openingMatch.value
                  ELSE Chars("Unknown Opening")]

\* extractOpening(pgn): { eco, name }
extractOpening(pgn) ==
    LET text == PgnText(pgn)
        ecoMatch == TagMatch(text, Chars("ECO"))
        openingMatch == TagMatch(text, Chars("Opening"))
        ecoUrlMatch == TagMatch(text, Chars("ECOUrl"))
    IN  [eco |-> IF ecoMatch.found THEN ecoMatch.value ELSE Chars("Unknown"),
         name |-> IF openingMatch.found THEN openingMatch.value
                  ELSE IF ecoUrlMatch.found THEN parseOpeningNameFromUrl(ecoUrlMatch.value)
                  ELSE Chars("Unknown Opening")]

\* the comparator with its operands swapped: the rarest openings first
compareCountAscending(a, b) == a.count - b.count

\* the comparator of computeOpeningStats: (a, b) => b.count - a.count
compareCount(a, b) == b.count - a.count

\* .sort((a, b) => b.count - a.count), a stable sort
sortByCount(s) ==
    LET before(i, j) == \/ compareCount(s[i], s[j]) < 0
                        \/ compareCount(s[i], s[j]) = 0 /\ i < j
        rank == SubSeq([i \in 1..Len(s) |->
                           1 + Cardinality({j \in 1..Len(s) : before(j, i)})], 1, Len(s))
        at == SubSeq([k \in 1..Len(s) |-> CHOOSE i \in 1..Len(s) : rank[i] = k], 1, Len(s))
    IN  [k \in 1..Len(s) |-> s[at[k]]]

\* the value of the Map under the code of opening, or a new one
ExistingOpening(map, opening) ==
    LET found == {i \in 1..Len(map) : map[i].eco = opening.eco}
    IN  IF found = {}
        THEN [at |-> 0,
              value |-> [eco |-> opening.eco, name |-> opening.name,
                         wins |-> 0, losses |-> 0, draws |-> 0]]
        ELSE [at |-> Least(found), value |-> map[Least(found)]]

\* existing.wins++, existing.losses++ or existing.draws++, and map.set
TallyOpening(map, existing, result) ==
    LET tallied == IF result = "win" THEN [existing.value EXCEPT !.wins = @ + 1]
                   ELSE IF result = "loss" THEN [existing.value EXCEPT !.losses = @ + 1]
                   ELSE [existing.value EXCEPT !.draws = @ + 1]
    IN  IF existing.at = 0 THEN Append(map, tallied)
        ELSE [map EXCEPT ![existing.at] = tallied]

\* the body of the loop of computeOpeningStats; map holds the values of the
\* Map in insertion order
OpeningStep(map, game, user, color) ==
    IF (color = "white") # playedAsWhite(game, user) THEN map
    ELSE TallyOpening(map, ExistingOpening(map, extractOpening(game.pgn)),
                      getResult(game, user))

RECURSIVE OpeningLoop(_, _, _, _, _)
OpeningLoop(gs, i, user, color, map) ==
    IF i > Len(gs) THEN map
    ELSE OpeningLoop(gs, i + 1, user, color, OpeningStep(map, gs[i], user, color))

\* topN of computeOpeningStats when the caller gives none
DefaultTopN == 10

\* Array.from(map.values()).map(...): count and winPct added to each value
withCounts(map) ==
    [i \in 1..Len(map) |->
        LET o == map[i]
            total == o.wins + o.losses + o.draws
        IN  [eco |-> o.eco, name |-> o.name, wins |-> o.wins,
             losses |-> o.losses, draws |-> o.draws,
             count |-> total, winPct |-> winPct(o.wins, total)]]

\* computeOpeningStats(games, username, color, topN); the Map and the array
\* are each computed once, as the elements of a set of one
computeOpeningStats(gs, user, color, topN) ==
    CHOOSE top \in {slice(sortByCount(all), topN) :
                       all \in {withCounts(map) :
                                   map \in {OpeningLoop(gs, 1, user, color, <<>>)}}} : TRUE


Tag(name, value) == [name |-> name, value |-> value]

\* the header lines of each kind of game
OpeningTags(kind) ==
    CASE kind = "ruy" -> <<Tag("ECO", "C60"), Tag("Opening", "Ruy Lopez")>>
      [] kind = "spanish" -> <<Tag("ECO", "C60"), Tag("Opening", "Spanish Game")>>
      [] kind = "queens" ->
           <<Tag("ECO", "D02"),
             Tag("ECOUrl", "https://www.chess.com/openings/Queens-Pawn-Game-2.Nf3-Nf6")>>
      [] kind = "caro" ->
           <<Tag("ECO", "B10"),
             Tag("ECOUrl", "https://www.chess.com/openings/Caro-Kann-Defense")>>
      [] kind = "noeco" -> <<Tag("Opening", "Ruy Lopez")>>
      [] kind = "ecoonly" -> <<Tag("ECO", "C60")>>
      [] kind = "bare" -> <<>>
      [] kind = "both" ->
           <<Tag("ECO", "C60"), Tag("Opening", "Ruy Lopez"),
             Tag("ECOUrl", "https://www.chess.com/openings/Caro-Kann-Defense")>>
      [] kind = "urlfirst" ->
           <<Tag("ECOUrl", "https://www.chess.com/openings/Caro-Kann-Defense"),
             Tag("Opening", "Spanish Game"), Tag("ECO", "B10")>>
      [] kind = "nopath" -> <<Tag("ECOUrl", "https://www.chess.com/openings/")>>
      [] kind = "nourl" -> <<Tag("ECO", "A00"), Tag("ECOUrl", "https://www.chess.com/games")>>
      [] kind = "moves" ->
           <<Tag("ECOUrl", "https://www.chess.com/openings/2.Nf3-Nf6")>>
      [] kind = "dots" ->
           <<Tag("ECOUrl", "https://www.chess.com/openings/Sicilian-Defense-2...Nc6-3.d4")>>
      [] kind = "digits" ->
           <<Tag("ECOUrl", "https://www.chess.com/openings/Kings-Gambit-1900-Line")>>
      [] kind = "emptyopening" ->
           <<Tag("Opening", ""),
             Tag("ECOUrl", "https://www.chess.com/openings/Caro-Kann-Defense")>>
      [] kind = "emptyeco" -> <<Tag("ECO", ""), Tag("Opening", "Ruy Lopez")>>

OpeningKinds ==
    {"ruy", "spanish", "queens", "caro", "noeco", "ecoonly", "bare", "both", "urlfirst",
     "nopath", "nourl", "moves", "dots", "digits", "emptyopening", "emptyeco"}

\* a record of ResultRec with the header lines tags in its PGN
TaggedRec(side, code, tags) ==
    [ResultRec(side, code, "none") EXCEPT
        !.pgn = [fen |-> "std", movetext |-> <<"e4", "e5">>, tags |-> tags, result |-> "*"]]

OpeningRec(side, code, kind) == TaggedRec(side, code, OpeningTags(kind))

\* the records of the short batches: four kinds of opening under three
\* codes, on both sides, with the three results
OpeningRecords ==
    {OpeningRec("w", "win", k) : k \in {"ruy", "spanish", "queens", "noeco"}}
    \cup {OpeningRec("b", "agreed", "queens"), OpeningRec("w", "resigned", "ruy"),
          OpeningRec("nobody", "win", "ruy")}

\* the longest batch of arbitrary records
MaxOpenings == 3

EcoCodes ==
    <<"A00", "A01", "A02", "A03", "A04", "A05", "A06", "A07", "A08", "A09", "A10", "A11",
      "A12">>

\* a batch of n games the subject won as White, each under a code of its
\* own, followed by again games of the last code
ManyOpenings(n, again) ==
    [i \in 1..(n + again) |->
        TaggedRec("w", "win", <<Tag("ECO", EcoCodes[IF i <= n THEN i ELSE n])>>)]

OpeningBatches ==
    SeqsUpTo(OpeningRecords, MaxOpenings)
    \cup {<<OpeningRec("w", "win", k)>> : k \in OpeningKinds}
    \cup {ManyOpenings(n, again) : n \in 10..12, again \in 0..1}

\* the largest topN given by a caller
MaxTopN == 2

OpeningsInit ==
    /\ HookIdle
    /\ AppIdle
    /\ games \in OpeningBatches
    /\ other \in [color : {"white", "black"}, topN : (0..MaxTopN) \cup {DefaultTopN}]
    /\ username \in {"alice"}
    /\ out = Null
    /\ outOther = Null
    /\ pc = "input"

OpeningStatsCall ==
    /\ pc = "input"
    /\ out' = computeOpeningStats(games, username, other.color, other.topN)
    /\ pc' = "called"
    /\ UNCHANGED <<games, other, username, outOther>>
    /\ UNCHANGED <<hookVars, appVars>>

\* extractOpening for each record of the batch
ExtractOpeningCall ==
    /\ pc = "called"
    /\ outOther' = [i \in 1..Len(games) |-> extractOpening(games[i].pgn)]
    /\ pc' = "done"
    /\ UNCHANGED <<games, other, username, out>>
    /\ UNCHANGED <<hookVars, appVars>>

OpeningsNext == OpeningStatsCall \/ ExtractOpeningCall

SpecOpenings == OpeningsInit /\ [][OpeningsNext]_vars

\* the records of the batch where the subject played the side color
PlayedSide(color) ==
    {i \in 1..Len(games) :
        toLowerCase(IF color = "white" THEN games[i].white.username
                    ELSE games[i].black.username) = toLowerCase(username)}

\* the opening code of the i-th record
CodeOf(i) == extractOpening(games[i].pgn).eco

\* the records of the side color under the opening code eco
UnderCode(color, eco) == {i \in PlayedSide(color) : CodeOf(i) = eco}

\* the opening codes of the side color
CodesOf(color) == {CodeOf(i) : i \in PlayedSide(color)}

\* the code a comes before the code b in the full list: it has more
\* records, or as many and its first record comes earlier
CodeBefore(color, a, b) ==
    LET na == Cardinality(UnderCode(color, a))
        nb == Cardinality(UnderCode(color, b))
    IN  \/ na > nb
        \/ na = nb /\ Least(UnderCode(color, a)) < Least(UnderCode(color, b))

\* the aggregate o tallies the records of the side color under its code
TalliesCode(color, o) ==
    LET under == UnderCode(color, o.eco)
        with(r) == Cardinality({i \in under : getResult(games[i], username) = r})
    IN  /\ o.eco \in CodesOf(color)
        /\ o.count = Cardinality(under)
        /\ o.wins = with("win")
        /\ o.losses = with("loss")
        /\ o.draws = with("draw")
        /\ o.name = extractOpening(games[Least(under)].pgn).name

MoveNumberMatches(text) ==
    {i \in PositionsOf(text, {"."}) : i > 1 /\ text[i - 1] \in Digit}

\* classifyGamePhase(pgn)
classifyGamePhase(pgn) ==
    LET moveCount == Cardinality(MoveNumberMatches(PgnText(pgn)))
    IN  IF moveCount < 12 THEN "opening"
        ELSE IF moveCount < 40 THEN "middlegame"
        ELSE "endgame"

\* the positions a global replace of /\$\d+/ removes
NagPositions(text) ==
    LET dollars == {i \in PositionsOf(text, {"$"}) :
                       i < Len(text) /\ text[i + 1] \in Digit}
    IN  UNION {d..(FirstOut(text, d + 1, Digit) - 1) : d \in dollars}

\* one of 1-0, 0-1, 1/2-1/2 and * occurs at position i; at most one does
MarkerLength(text, i) ==
    IF MatchesAt(text, <<"1", "-", "0">>, i) \/ MatchesAt(text, <<"0", "-", "1">>, i) THEN 3
    ELSE IF MatchesAt(text, <<"1", "/", "2", "-", "1", "/", "2">>, i) THEN 7
    ELSE IF MatchesAt(text, <<"*">>, i) THEN 1
    ELSE 0

\* the global replace takes the matches from left to right: one starts at
\* i unless an earlier one has taken the character at i; only 1-0 and 0-1
\* two places before, and 1/2-1/2 four places before, reach that far
RECURSIVE MarkerStartsAt(_, _)
MarkerStartsAt(text, i) ==
    /\ i >= 1
    /\ MarkerLength(text, i) > 0
    /\ ~(MarkerLength(text, i - 2) = 3 /\ MarkerStartsAt(text, i - 2))
    /\ ~(MarkerLength(text, i - 4) = 7 /\ MarkerStartsAt(text, i - 4))

\* the positions a global replace of /1-0|0-1|1\/2-1\/2|\*/ removes
MarkerPositions(text) ==
    LET starts == {i \in PositionsOf(text, {"0", "1", "*"}) : MarkerStartsAt(text, i)}
    IN  UNION {i..(i + MarkerLength(text, i) - 1) : i \in starts}

\* the runs of characters other than white space that start in lo..hi
RECURSIVE SplitRange(_, _, _)
SplitRange(text, lo, hi) ==
    IF lo > hi THEN <<>>
    ELSE IF lo = hi
    THEN IF text[lo] \notin Space /\ (lo = 1 \/ text[lo - 1] \in Space)
         THEN <<SubSeq(text, lo, FirstIn(text, lo, Space) - 1)>>
         ELSE <<>>
    ELSE LET mid == (lo + hi) \div 2
         IN  SplitRange(text, lo, mid) \o SplitRange(text, mid + 1, hi)

\* text.split(/\s+/).filter(Boolean)
splitOnSpace(text) == SplitRange(text, 1, Len(text))

\* parsePgnMoveTokens(pgn): the moves of the text in order
parsePgnMoveTokens(text) ==
    LET noTags == stripHeaderTags(text)
        noComments == Without(noTags, Enclosed(noTags, "{", "}"))
        noVariations == Without(noComments, Enclosed(noComments, "(", ")"))
        noNags == Without(noVariations, NagPositions(noVariations))
        noResult == Without(noNags, MarkerPositions(noNags))
        isMove(t) == ~StartsWithMoveNumber(t, 1)
    IN  SelectSeq(splitOnSpace(trim(noResult)), isMove)

\* classifyMove that takes every move for a pawn move
classifyAsPawn(m) == "pawn"

\* classifyMove(move), "none" for null
classifyMove(m) ==
    IF m[1] = "O" THEN "king"
    ELSE IF m[1] = "N" THEN "knight"
    ELSE IF m[1] = "B" THEN "bishop"
    ELSE IF m[1] = "R" THEN "rook"
    ELSE IF m[1] = "Q" THEN "queen"
    ELSE IF m[1] \in {"a", "b", "c", "d", "e", "f", "g", "h"} THEN "pawn"
    ELSE "none"

Pieces == {"pawn", "knight", "bishop", "rook", "queen", "king"}

\* the body of the loop of computePieceMoveFrequency
PieceStep(counts, game, user) ==
    LET asWhite == playedAsWhite(game, user)
        tokens == parsePgnMoveTokens(PgnText(game.pgn))
        \* for (let i = asWhite ? 0 : 1; i < tokens.length; i += 2), from 1
        own == {i \in 1..Len(tokens) : i % 2 = (IF asWhite THEN 1 ELSE 0)}
    IN  [p \in Pieces |->
            counts[p] + Cardinality({i \in own : classifyMove(tokens[i]) = p})]

RECURSIVE PieceLoop(_, _, _, _)
PieceLoop(gs, i, user, counts) ==
    IF i > Len(gs) THEN counts
    ELSE PieceLoop(gs, i + 1, user, PieceStep(counts, gs[i], user))

\* computePieceMoveFrequency(games, username)
computePieceMoveFrequency(gs, user) ==
    PieceLoop(gs, 1, user, [p \in Pieces |-> 0])


\* a record of ResultRec with the PGN pgn
MoveRec(side, pgn) == [ResultRec(side, "win", "none") EXCEPT !.pgn = pgn]

\* movetexts with and without castling
CastlingGames ==
    {CastlingText(c) : c \in {"kingside", "queenside", "both", "none"}}
    \cup {<<"e4", "e5", "Nf3", "Nc6", "Bc4", "Nf6", "O-O">>,
          <<"e4", "e5", "O-O+">>, <<"d4", "d5", "O-O-O#">>,
          <<"e4", "e5", "O-O-O#", "O-O">>}

\* header lines: none, a player, a player whose name reads as castling, the
\* date of the game
HeaderTags ==
    {<<>>, <<Tag("White", "alice")>>, <<Tag("White", "O-O-O")>>,
     <<Tag("Date", "2024.01.15")>>}

CastlingRecords ==
    {MoveRec("w", [fen |-> "std", movetext |-> m, tags |-> t, clocks |-> c, result |-> "*"]) :
        m \in CastlingGames, t \in HeaderTags, c \in BOOLEAN}

\* a game of n moves, the last one without Black's reply when half is TRUE
KnightDance(n, half) ==
    [i \in 1..(IF half THEN 2 * n - 1 ELSE 2 * n) |->
        <<"Nf3", "Nf6", "Ng1", "Ng8">>[((i - 1) % 4) + 1]]

\* the numbers of moves of the games, around the limits of the phases
MoveCounts == {0, 1, 6, 11, 12, 13, 39, 40, 41}

\* the most moves of a game written with clocks
MaxClockMoves == 13

PhaseRecords ==
    {MoveRec("w", [fen |-> "std", movetext |-> <<>>, tags |-> <<>>,
                   clocks |-> FALSE, result |-> "*"])}
    \cup {g \in {MoveRec("w", [fen |-> "std", movetext |-> KnightDance(n, h), tags |-> t,
                               clocks |-> c, result |-> "1-0"]) :
                    n \in MoveCounts \ {0}, h \in BOOLEAN,
                    t \in {<<>>, <<Tag("Date", "2024.01.15")>>}, c \in BOOLEAN} :
             g.pgn.clocks => Len(g.pgn.movetext) <= 2 * MaxClockMoves}

\* a game with moves of every piece, a king move and a null move
PieceGame ==
    <<"e4", "e5", "Nf3", "Nc6", "Bb5", "a6", "O-O", "Qe7", "Re1", "Ke7", "exd5", "--",
      "e8=Q", "O-O-O#">>

\* what an annotator adds to PieceGame: nothing, glyphs, a comment, a
\* variation, a comment and a variation with a glyph
Annotations ==
    LET plain == [i \in 1..Len(PieceGame) |-> ""]
    IN  {plain,
         [plain EXCEPT ![1] = "!", ![4] = " $1", ![5] = " $142"],
         [plain EXCEPT ![3] = " {the Ruy Lopez (Spanish)}"],
         [plain EXCEPT ![4] = " (3. Bc4 Bc5)"],
         [plain EXCEPT ![2] = " $1", ![4] = " {an aside} (3. d4 $2 exd4)"]}

PieceRecords ==
    {MoveRec(s, [fen |-> "std", movetext |-> SubSeq(PieceGame, 1, n), tags |-> t,
                 clocks |-> c, notes |-> SubSeq(a, 1, n), result |-> r]) :
        s \in {"w", "b"}, n \in {6, Len(PieceGame)}, t \in {<<>>, <<Tag("White", "alice")>>},
        c \in BOOLEAN, a \in Annotations, r \in {"*", "1-0", "1/2-1/2"}}

\* the longest batch of several games
MaxPieceGames == 2

PieceBatches ==
    SeqsUpTo({g \in PieceRecords : g.pgn.result = "*" /\ g.pgn.tags = <<>>
                                   /\ ~g.pgn.clocks /\ g.pgn.notes[4] # ""},
             MaxPieceGames)

MoveBatches ==
    {<<g>> : g \in CastlingRecords \cup PhaseRecords \cup PieceRecords}
    \cup PieceBatches

MovesInit ==
    /\ HookIdle
    /\ AppIdle
    /\ games \in MoveBatches
    /\ other = <<>>
    /\ username \in {"alice"}
    /\ out = Null
    /\ outOther = Null
    /\ pc = "input"

\* detectCastling and classifyGamePhase for each record of the batch
ClassifyCall ==
    /\ pc = "input"
    /\ out' = [castling |-> [i \in 1..Len(games) |-> detectCastling(games[i].pgn)],
               phase |-> [i \in 1..Len(games) |-> classifyGamePhase(games[i].pgn)]]
    /\ pc' = "called"
    /\ UNCHANGED <<games, other, username, outOther>>
    /\ UNCHANGED <<hookVars, appVars>>

PieceMoveFrequencyCall ==
    /\ pc = "called"
    /\ outOther' = computePieceMoveFrequency(games, username)
    /\ pc' = "done"
    /\ UNCHANGED <<games, other, username, out>>
    /\ UNCHANGED <<hookVars, appVars>>

MovesNext == ClassifyCall \/ PieceMoveFrequencyCall

SpecMoves == MovesInit /\ [][MovesNext]_vars

\* the move m is written with the notation pat, possibly followed by a
\* check or mate sign
Notation(m, pat) ==
    /\ MatchesAt(Chars(m), Chars(pat), 1)
    /\ \A k \in (Len(Chars(pat)) + 1)..Len(Chars(m)) : Chars(m)[k] \in {"+", "#"}

\* a move of the game is written with the notation pat
HasMove(game, pat) ==
    \E i \in 1..Len(game.pgn.movetext) : Notation(game.pgn.movetext[i], pat)

\* C12: detectCastling returns queenside when O-O-O occurs as a move of the
\* game, whether or not O-O occurs too, kingside when O-O occurs as a move
\* and O-O-O does not, and none when neither occurs; the header lines do
\* not count
C12_QueensideFirst ==
    pc # "input" =>
        \A i \in 1..Len(games) :
            out.castling[i] =
                IF HasMove(games[i], "O-O-O") THEN "queenside"
                ELSE IF HasMove(games[i], "O-O") THEN "kingside"
                ELSE "none"

\* a game where both castlings are moves, the kingside one first, is
\* classified queenside
C12_Witness ==
    /\ pc = "called"
    /\ \E i \in 1..Len(games) :
           /\ HasMove(games[i], "O-O-O")
           /\ HasMove(games[i], "O-O")
           /\ Notation(games[i].pgn.movetext[3], "O-O")
           /\ out.castling[i] = "queenside"

\* the number of moves of the game: a move is White's ply and Black's reply
MovesOf(game) == (Len(game.pgn.movetext) + 1) \div 2

\* C13: classifyGamePhase gives opening to a game of fewer than 12 moves,
\* middlegame to a game of 12 to 39 moves and endgame to a game of 40 or
\* more moves
C13_PhaseByMoveCount ==
    pc # "input" =>
        \A i \in 1..Len(games) :
            out.phase[i] =
                IF MovesOf(games[i]) < 12 THEN "opening"
                ELSE IF MovesOf(games[i]) < 40 THEN "middlegame"
                ELSE "endgame"

\* the piece a move is counted for by its first character
PieceOfLeading(ch) ==
    CASE ch = "O" -> "king"
      [] ch = "N" -> "knight"
      [] ch = "B" -> "bishop"
      [] ch = "R" -> "rook"
      [] ch = "Q" -> "queen"
      [] ch \in {"a", "b", "c", "d", "e", "f", "g", "h"} -> "pawn"
      [] OTHER -> "none"

\* the plies of the game made by the subject's side: White's are the first,
\* the third and so on
PliesOfSubject(game) ==
    {i \in 1..Len(game.pgn.movetext) :
        (i % 2 = 1) = (toLowerCase(game.white.username) = toLowerCase(username))}

\* the plies of the subject's side in the game that count for the piece p
PliesOfPiece(game, p) ==
    {i \in PliesOfSubject(game) : PieceOfLeading(Chars(game.pgn.movetext[i])[1]) = p}

CivilFromDays(days) ==
    LET z == days + 719468
        era == z \div 146097
        doe == z - (era * 146097)
        yoe == (doe - (doe \div 1460) + (doe \div 36524) - (doe \div 146096)) \div 365
        doy == doe - ((365 * yoe) + (yoe \div 4) - (yoe \div 100))
        mp == ((5 * doy) + 2) \div 153
        month == IF mp < 10 THEN mp + 3 ELSE mp - 9
    IN  [year |-> yoe + (era * 400) + (IF month <= 2 THEN 1 ELSE 0),
         month |-> month,
         day |-> doy - (((153 * mp) + 2) \div 5) + 1]

\* n written with width digits
Padded(n, width) == [k \in 1..width |-> DigitChar((n \div (10 ^ (width - k))) % 10)]

\* new Date(t * 1000).toISOString().slice(0, 10): the date in UTC
toISODate(t) ==
    LET date == CivilFromDays(t \div 86400)
    IN  Padded(date.year, 4) \o <<"-">> \o Padded(date.month, 2) \o <<"-">>
            \o Padded(date.day, 2)

\* date.getHours() and date.getDay() where local time is tz minutes ahead
\* of UTC; 1970-01-01 was a Thursday
getHours(t, tz) == ((t + (tz * 60)) \div 3600) % 24
getDay(t, tz) == (((t + (tz * 60)) \div 86400) + 4) % 7

\* the order of the characters of a date
CharOrder(ch) ==
    CASE ch = "-" -> 0
      [] ch = "0" -> 1 [] ch = "1" -> 2 [] ch = "2" -> 3 [] ch = "3" -> 4
      [] ch = "4" -> 5 [] ch = "5" -> 6 [] ch = "6" -> 7 [] ch = "7" -> 8
      [] ch = "8" -> 9 [] ch = "9" -> 10

\* a.localeCompare(b) for dates: the first place where they differ decides
localeCompare(a, b) ==
    LET differ == {k \in 1..Min(Len(a), Len(b)) : a[k] # b[k]}
    IN  IF differ = {} THEN Len(a) - Len(b)
        ELSE CharOrder(a[Least(differ)]) - CharOrder(b[Least(differ)])

\* the comparator with its operands swapped: the latest day first
compareDateDescending(a, b) == localeCompare(b.date, a.date)

\* the comparator of computeActivityHeatmap
compareDate(a, b) == localeCompare(a.date, b.date)

\* .sort((a, b) => a.date.localeCompare(b.date)), a stable sort
sortByDate(s) ==
    LET before(i, j) == \/ compareDate(s[i], s[j]) < 0
                        \/ compareDate(s[i], s[j]) = 0 /\ i < j
        rank == SubSeq([i \in 1..Len(s) |->
                           1 + Cardinality({j \in 1..Len(s) : before(j, i)})], 1, Len(s))
        at == SubSeq([k \in 1..Len(s) |-> CHOOSE i \in 1..Len(s) : rank[i] = k], 1, Len(s))
    IN  [k \in 1..Len(s) |-> s[at[k]]]

\* the body of the loop of computeActivityHeatmap; dayMap holds the values
\* of the Map in insertion order
HeatmapStep(dayMap, game, user) ==
    LET date == toISODate(game.end_time)
        result == getResult(game, user)
        found == {i \in 1..Len(dayMap) : dayMap[i].date = date}
        entry == IF found = {}
                 THEN [date |-> date, count |-> 0, wins |-> 0, losses |-> 0, draws |-> 0]
                 ELSE dayMap[Least(found)]
        counted == [entry EXCEPT !.count = @ + 1]
        tallied == IF result = "win" THEN [counted EXCEPT !.wins = @ + 1]
                   ELSE IF result = "loss" THEN [counted EXCEPT !.losses = @ + 1]
                   ELSE [counted EXCEPT !.draws = @ + 1]
    IN  IF found = {} THEN Append(dayMap, tallied)
        ELSE [dayMap EXCEPT ![Least(found)] = tallied]

RECURSIVE HeatmapLoop(_, _, _, _)
HeatmapLoop(gs, i, user, dayMap) ==
    IF i > Len(gs) THEN dayMap
    ELSE HeatmapLoop(gs, i + 1, user, HeatmapStep(dayMap, gs[i], user))

\* computeActivityHeatmap(games, username)
computeActivityHeatmap(gs, user) == sortByDate(HeatmapLoop(gs, 1, user, <<>>))

\* an entry that counts a game only when it is won
addWonGame(entry, isWin) ==
    IF isWin THEN [games |-> entry.games + 1, wins |-> entry.wins + 1] ELSE entry

\* entry.games++; if (isWin) entry.wins++
addGame(entry, isWin) ==
    [games |-> entry.games + 1, wins |-> entry.wins + (IF isWin THEN 1 ELSE 0)]

\* the body of the loop of computeCalendarStats
CalendarStep(maps, game, user, tz) ==
    LET hour == getHours(game.end_time, tz)
        day == getDay(game.end_time, tz)
        isWin == getResult(game, user) = "win"
    IN  [hourMap |-> [maps.hourMap EXCEPT ![hour] = addGame(@, isWin)],
         dayMap |-> [maps.dayMap EXCEPT ![day] = addGame(@, isWin)]]

RECURSIVE CalendarLoop(_, _, _, _, _)
CalendarLoop(gs, i, user, tz, maps) ==
    IF i > Len(gs) THEN maps
    ELSE CalendarLoop(gs, i + 1, user, tz, CalendarStep(maps, gs[i], user, tz))

DAY_LABELS == <<"Sun", "Mon", "Tue", "Wed", "Thu", "Fri", "Sat">>

\* computeCalendarStats(games, username), run where local time is tz
\* minutes ahead of UTC
computeCalendarStats(gs, user, tz) ==
    LET maps == CalendarLoop(gs, 1, user, tz,
                             [hourMap |-> [h \in 0..23 |-> [games |-> 0, wins |-> 0]],
                              dayMap |-> [d \in 0..6 |-> [games |-> 0, wins |-> 0]]])
    IN  [hourOfDay |-> [k \in 1..24 |->
                           [hour |-> k - 1,
                            games |-> maps.hourMap[k - 1].games,
                            wins |-> maps.hourMap[k - 1].wins,
                            winPct |-> winPct(maps.hourMap[k - 1].wins,
                                              maps.hourMap[k - 1].games)]],
         dayOfWeek |-> [k \in 1..7 |->
                           [day |-> k - 1,
                            label |-> DAY_LABELS[k],
                            games |-> maps.dayMap[k - 1].games,
                            wins |-> maps.dayMap[k - 1].wins,
                            winPct |-> winPct(maps.dayMap[k - 1].wins,
                                              maps.dayMap[k - 1].games)]]]

\* a record of ResultRec that ended at the time t
TimedRec(side, code, t) == [ResultRec(side, code, "none") EXCEPT !.end_time = t]

\* end times: the last second of 2024-01-14 and the first of 2024-01-15,
\* the last hours of 2024-01-15 and of 2023, noon of 2024-02-29, the epoch
EndTimes == {1705276799, 1705276800, 1705359600, 1704063600, 1709208000, 0}

TimedRecords ==
    {TimedRec("w", "win", t) : t \in EndTimes}
    \cup {TimedRec("b", "resigned", 1705276800), TimedRec("w", "agreed", 1705359600)}

\* the longest batch
MaxTimed == 3

\* the minutes local time is ahead of UTC where the program runs
TimeZones == {-480, 0, 60, 330}

CalendarInit ==
    /\ HookIdle
    /\ AppIdle
    /\ games \in SeqsUpTo(TimedRecords, MaxTimed)
    /\ other \in [tz : TimeZones]
    /\ username \in {"alice"}
    /\ out = Null
    /\ outOther = Null
    /\ pc = "input"

ActivityHeatmapCall ==
    /\ pc = "input"
    /\ out' = computeActivityHeatmap(games, username)
    /\ pc' = "called"
    /\ UNCHANGED <<games, other, username, outOther>>
    /\ UNCHANGED <<hookVars, appVars>>

CalendarStatsCall ==
    /\ pc = "called"
    /\ outOther' = computeCalendarStats(games, username, other.tz)
    /\ pc' = "done"
    /\ UNCHANGED <<games, other, username, out>>
    /\ UNCHANGED <<hookVars, appVars>>

CalendarNext == ActivityHeatmapCall \/ CalendarStatsCall

SpecCalendar == CalendarInit /\ [][CalendarNext]_vars

\* the records of the batch that ended on the day written date
EndedOn(date) == {i \in 1..Len(games) : toISODate(games[i].end_time) = date}

\* C15: computeActivityHeatmap returns one entry per calendar day on which a
\* record of the batch ended, in strictly ascending order of the date
\* strings; the wins, losses and draws of an entry add up to its count, the
\* counts add up to the length of the batch, and the empty batch gives the
\* empty list
C15_HeatmapEntries ==
    pc # "input" =>
        /\ Len(out) = Cardinality({games[i].end_time \div 86400 : i \in 1..Len(games)})
        /\ {out[k].date : k \in 1..Len(out)} =
               {toISODate(games[i].end_time) : i \in 1..Len(games)}
        /\ \A k \in 1..(Len(out) - 1) : localeCompare(out[k].date, out[k + 1].date) < 0
        /\ \A k \in 1..Len(out) :
               /\ out[k].wins + out[k].losses + out[k].draws = out[k].count
               /\ out[k].count = Cardinality(EndedOn(out[k].date))
        /\ SumRange([k \in 1..Len(out) |-> out[k].count], 1, Len(out)) = Len(games)
        /\ (games = <<>> => out = <<>>)

\* a batch whose first record ended on a later day than its last one, with
\* two records on one day, a win and a game that was not won
C15_Witness ==
    /\ pc = "called"
    /\ Len(games) = 3
    /\ games[1].end_time \div 86400 > games[3].end_time \div 86400
    /\ Len(out) = 2
    /\ \E k \in 1..2 : out[k].count = 2 /\ out[k].wins = 1

\* C19: computeCalendarStats returns the 24 buckets of the hours 0 to 23 and
\* the 7 buckets of the days 0 to 6, for the empty batch too; the games of
\* the hour buckets and the games of the day buckets each add up to the
\* length of the batch, and no bucket has more wins than games
C19_CalendarBuckets ==
    pc = "done" =>
        LET hours == outOther.hourOfDay
            days == outOther.dayOfWeek
        IN  /\ Len(hours) = 24
            /\ \A k \in 1..24 : hours[k].hour = k - 1 /\ hours[k].wins <= hours[k].games
            /\ Len(days) = 7
            /\ \A k \in 1..7 : days[k].day = k - 1 /\ days[k].wins <= days[k].games
            /\ SumRange([k \in 1..24 |-> hours[k].games], 1, 24) = Len(games)
            /\ SumRange([k \in 1..7 |-> days[k].games], 1, 7) = Len(games)

\* three games in two hours of the day, one hour with a game that was not
\* won
C19_Witness ==
    /\ pc = "done"
    /\ Len(games) = 3
    /\ Cardinality({k \in 1..24 : outOther.hourOfDay[k].games > 0}) = 2
    /\ \E k \in 1..24 : outOther.hourOfDay[k].wins < outOther.hourOfDay[k].games
    /\ \E k \in 1..7 : outOther.dayOfWeek[k].wins > 0

\* the local calendar date of the time t, where local time is tz minutes
\* ahead of UTC
LocalDate(t, tz) == toISODate(t + (tz * 60))

\* C20: computeActivityHeatmap files each record under the local calendar
\* date of its end time, the day computeCalendarStats takes its hour and
\* its day of the week from
C20_LocalDay ==
    pc = "done" =>
        \A k \in 1..Len(out) :
            out[k].count =
                Cardinality({i \in 1..Len(games) :
                                LocalDate(games[i].end_time, other.tz) = out[k].date})

\* ------------------------------------------------------------------------
\* computeAccuracyStats and computeAccuracyDistribution.  The accuracies of
\* the records are whole numbers, so their sums are exact.
\* ------------------------------------------------------------------------

\* Math.floor(x) for a double x, 0 <= x < 2^25
MathFloor(x) ==
    IF x.kind = "zero" \/ x.exp < 0 THEN 0
    ELSE ((x.digits[1] * Base + x.digits[2]) * Base + x.digits[3])
             \div (2 ^ (2 * DigitBits - x.exp))

\* if (!game.accuracies) continue
hasAccuracies(game) == "accuracies" \in DOMAIN game

\* the accuracy of White whoever the subject is
whiteAccuracy(game, user) == game.accuracies.white

\* asWhite ? game.accuracies.white : game.accuracies.black
subjectAccuracy(game, user) ==
    IF playedAsWhite(game, user) THEN game.accuracies.white ELSE game.accuracies.black

\* Math.round((sum / count) * 10) / 10, kept as the number of tenths
roundedMean(sum, count) == [tenths |-> MathRound(fmul(fdiv(sum, count), 10))]

compareTime(a, b) == a.date - b.date

\* history.sort((a, b) => a.date - b.date), a stable sort
sortByTime(s) ==
    LET before(i, j) == \/ compareTime(s[i], s[j]) < 0
                        \/ compareTime(s[i], s[j]) = 0 /\ i < j
        rank == SubSeq([i \in 1..Len(s) |->
                           1 + Cardinality({j \in 1..Len(s) : before(j, i)})], 1, Len(s))
        at == SubSeq([k \in 1..Len(s) |-> CHOOSE i \in 1..Len(s) : rank[i] = k], 1, Len(s))
    IN  [k \in 1..Len(s) |-> s[at[k]]]

\* computeAccuracyStats(games, username)
computeAccuracyStats(gs, user) ==
    LET mark == SubSeq([i \in 1..Len(gs) |-> hasAccuracies(gs[i])], 1, Len(gs))
        bearing == KeepRange(gs, mark, 1, Len(gs))
        history == SubSeq([i \in 1..Len(bearing) |->
                              [date |-> bearing[i].end_time,
                               accuracy |-> subjectAccuracy(bearing[i], user),
                               gameType |-> bearing[i].time_class]], 1, Len(bearing))
        ofType(type) == [i \in 1..Len(history) |->
                            IF history[i].gameType = type THEN history[i].accuracy ELSE 0]
        countOf(type) == Cardinality({i \in 1..Len(history) : history[i].gameType = type})
        total == SumRange([i \in 1..Len(history) |-> history[i].accuracy], 1, Len(history))
    IN  [average |-> IF Len(history) > 0 THEN roundedMean(total, Len(history)) ELSE Null,
         byGameType |-> [type \in {history[i].gameType : i \in 1..Len(history)} |->
                            roundedMean(SumRange(ofType(type), 1, Len(history)),
                                        countOf(type))],
         history |-> sortByTime(history)]

\* the index of the bucket without the limit of 9
bucketIndexUnclamped(accuracy) == MathFloor(fdiv(accuracy, 10))

\* Math.min(Math.floor(accuracy / 10), 9)
bucketIndex(accuracy) == Min(MathFloor(fdiv(accuracy, 10)), 9)

\* computeAccuracyDistribution(history); "endash" is the dash of the labels,
\* a character outside ASCII
computeAccuracyDistribution(history) ==
    [k \in 1..10 |->
        [bucket |-> Decimal((k - 1) * 10) \o <<"endash">> \o Decimal(k * 10),
         min |-> (k - 1) * 10,
         max |-> k * 10,
         count |-> Cardinality({i \in 1..Len(history) :
                                   bucketIndex(history[i].accuracy) = k - 1})]]

\* a record of a game that ended at the time t, with the accuracy acc of
\* the subject when review is TRUE
AccuracyRec(side, t, type, review, acc) ==
    LET game == [white |-> [username |-> IF side = "w" THEN "ALICE" ELSE "bob",
                            result |-> "win"],
                 black |-> [username |-> IF side = "b" THEN "alice" ELSE "carol",
                            result |-> "resigned"],
                 end_time |-> t,
                 time_class |-> type,
                 pgn |-> [fen |-> "std", movetext |-> <<"e4", "e5">>]]
    IN  IF review
        THEN game @@ [accuracies |-> [white |-> IF side = "w" THEN acc ELSE 50,
                                      black |-> IF side = "b" THEN acc ELSE 50]]
        ELSE game

AccuracyRecords ==
    {AccuracyRec("w", 3, "blitz", TRUE, 90), AccuracyRec("b", 1, "blitz", TRUE, 80),
     AccuracyRec("w", 2, "rapid", TRUE, 81), AccuracyRec("b", 2, "rapid", TRUE, 100),
     AccuracyRec("w", 1, "blitz", TRUE, 0), AccuracyRec("w", 1, "rapid", TRUE, 99),
     AccuracyRec("b", 2, "blitz", TRUE, 9), AccuracyRec("w", 2, "blitz", FALSE, 0),
     AccuracyRec("b", 3, "rapid", FALSE, 0)}

\* the longest batch of arbitrary records
MaxReviewed == 3

\* the length of the batches of equal records
MaxRepeated == 20

\* n games with the accuracy 80, one of them replaced by a game with the
\* accuracy acc
RepeatedBatch(n, acc) ==
    [i \in 1..n |-> AccuracyRec("w", n - i, "blitz", TRUE, IF i = 1 THEN acc ELSE 80)]

AccuracyBatches ==
    SeqsUpTo(AccuracyRecords, MaxReviewed)
    \cup {RepeatedBatch(n, acc) : n \in 4..MaxRepeated, acc \in {81, 83, 90}}
    \cup {<<AccuracyRec("w", 1, "blitz", TRUE, acc)>> : acc \in 0..100}

AccuracyInit ==
    /\ HookIdle
    /\ AppIdle
    /\ games \in AccuracyBatches
    /\ other = <<>>
    /\ username \in {"alice"}
    /\ out = Null
    /\ outOther = Null
    /\ pc = "input"

AccuracyStatsCall ==
    /\ pc = "input"
    /\ out' = computeAccuracyStats(games, username)
    /\ pc' = "called"
    /\ UNCHANGED <<games, other, username, outOther>>
    /\ UNCHANGED <<hookVars, appVars>>

\* the distribution of the history of the accuracy stats
AccuracyDistributionCall ==
    /\ pc = "called"
    /\ outOther' = computeAccuracyDistribution(out.history)
    /\ pc' = "done"
    /\ UNCHANGED <<games, other, username, out>>
    /\ UNCHANGED <<hookVars, appVars>>

AccuracyNext == AccuracyStatsCall \/ AccuracyDistributionCall

SpecAccuracy == AccuracyInit /\ [][AccuracyNext]_vars

\* C16: computeAccuracyDistribution returns the 10 buckets from 0 to 10 up
\* to from 90 to 100; an entry with an accuracy from 0 to 100 is counted in
\* the bucket floor(accuracy / 10), and in the last bucket when the accuracy
\* is 100; the counts add up to the length of the history
C16_TenBuckets ==
    pc = "done" =>
        /\ Len(outOther) = 10
        /\ \A k \in 1..10 :
               /\ outOther[k].min = (k - 1) * 10
               /\ outOther[k].max = k * 10
               /\ outOther[k].count =
                      Cardinality({i \in 1..Len(out.history) :
                          (IF out.history[i].accuracy = 100 THEN 9
                           ELSE out.history[i].accuracy \div 10) = k - 1})
        /\ SumRange([k \in 1..10 |-> outOther[k].count], 1, 10) = Len(out.history)

\* a history with the accuracies 100 and 90, both counted in the last
\* bucket, and an accuracy below 10
C16_Witness ==
    /\ pc = "done"
    /\ \E i \in 1..Len(out.history) : out.history[i].accuracy = 100
    /\ \E i \in 1..Len(out.history) : out.history[i].accuracy = 90
    /\ outOther[10].count = 2
    /\ outOther[1].count = 1

\* the records of the batch that carry accuracy data
Reviewed == {i \in 1..Len(games) : hasAccuracies(games[i])}

\* the accuracy of the subject's side in the i-th record
SideAccuracy(i) ==
    IF toLowerCase(games[i].white.username) = toLowerCase(username)
    THEN games[i].accuracies.white
    ELSE games[i].accuracies.black

\* the sum of the accuracies of the subject's side
AccuracySum ==
    SumRange([i \in 1..Len(games) |-> IF i \in Reviewed THEN SideAccuracy(i) ELSE 0],
             1, Len(games))

\* history holds one entry per record with accuracy data, with the time
\* and the accuracy of the subject's side, in ascending order of the times
HistoryOfReviewed ==
    /\ Len(out.history) = Cardinality(Reviewed)
    /\ \A k \in 1..(Len(out.history) - 1) : out.history[k].date <= out.history[k + 1].date
    /\ \A t \in {games[i].end_time : i \in Reviewed} :
           \A a \in {SideAccuracy(i) : i \in Reviewed} :
               Cardinality({k \in 1..Len(out.history) :
                               out.history[k].date = t /\ out.history[k].accuracy = a})
                   = Cardinality({i \in Reviewed :
                                     games[i].end_time = t /\ SideAccuracy(i) = a})

\* C17 as stated: the average is null exactly when no record carries
\* accuracy data, and otherwise it is the mean of the accuracies of the
\* subject's side; history is as HistoryOfReviewed says
C17_MeanAccuracy ==
    pc # "input" =>
        /\ (out.average = Null) <=> (Reviewed = {})
        /\ Reviewed # {} => out.average.tenths * Cardinality(Reviewed) = 10 * AccuracySum
        /\ HistoryOfReviewed

\* C17: the average is null exactly when no record carries accuracy data,
\* and otherwise it is the mean of the accuracies of the subject's side
\* rounded to one decimal, at most half a tenth away from the mean; history
\* holds one entry per record with accuracy data, in ascending order of the
\* times
C17_RoundedMean ==
    pc # "input" =>
        /\ (out.average = Null) <=> (Reviewed = {})
        /\ Reviewed # {} =>
               LET n == Cardinality(Reviewed)
                   gap == (out.average.tenths * n) - (10 * AccuracySum)
               IN  2 * gap <= n /\ -2 * gap <= n
        /\ HistoryOfReviewed

\* three records with accuracy data, not in the order of their times, whose
\* mean is not a number of tenths, and the subject played Black in one
C17_Witness ==
    /\ pc = "called"
    /\ Cardinality(Reviewed) = 3
    /\ games[1].end_time > games[2].end_time
    /\ \E i \in Reviewed : ~playedAsWhite(games[i], username)
    /\ out.average.tenths * 3 # 10 * AccuracySum

\* the values of the header lines called name that are not empty, in the
\* order of the lines
ValuesOf(tags, name) ==
    SelectSeq([k \in 1..Len(tags) |-> IF tags[k].name = name THEN tags[k].value ELSE ""],
              LAMBDA v : v # "")

\* the text between hyphens, as a sequence of segments
RECURSIVE HyphenParts(_)
HyphenParts(p) ==
    LET hyphens == {h \in 1..Len(p) : p[h] = "-"}
    IN  IF hyphens = {} THEN <<p>>
        ELSE <<SubSeq(p, 1, Least(hyphens) - 1)>>
                 \o HyphenParts(SubSeq(p, Least(hyphens) + 1, Len(p)))

\* a segment that starts with digits followed by a dot
IsMoveNumber(seg) ==
    \E d \in 1..(Len(seg) - 1) : (\A k \in 1..d : seg[k] \in Digit) /\ seg[d + 1] = "."

\* the segments before the first that starts with a move number
RECURSIVE NameSegments(_)
NameSegments(segs) ==
    IF segs = <<>> \/ IsMoveNumber(Head(segs)) THEN <<>>
    ELSE <<Head(segs)>> \o NameSegments(Tail(segs))

\* the segments joined by spaces
RECURSIVE JoinedBySpaces(_)
JoinedBySpaces(segs) ==
    IF segs = <<>> THEN <<>>
    ELSE IF Len(segs) = 1 THEN Head(segs)
    ELSE Head(segs) \o <<" ">> \o JoinedBySpaces(Tail(segs))

\* the name derived from the address url: what follows "/openings/", cut
\* into segments at the hyphens; <<>> when the address has no such part
DerivedName(url) ==
    LET sep == Chars("/openings/")
        at == {i \in 1..(Len(url) - Len(sep) + 1) : SubSeq(url, i, i + Len(sep) - 1) = sep}
    IN  IF at = {} THEN <<>>
        ELSE JoinedBySpaces(NameSegments(
                 HyphenParts(SubSeq(url, Least(at) + Len(sep), Len(url)))))

\* the name the header lines tags call for
NameOf(tags) ==
    LET named == ValuesOf(tags, "Opening")
        urls == ValuesOf(tags, "ECOUrl")
    IN  IF named # <<>> THEN Chars(named[1])
        ELSE IF urls # <<>> /\ DerivedName(Chars(urls[1])) # <<>>
             THEN DerivedName(Chars(urls[1]))
        ELSE Chars("Unknown Opening")

\* C18: the name extractOpening returns is the value of the Opening line
\* when there is one; otherwise the part of the ECOUrl line after
\* "/openings/", its segments between hyphens up to the first that starts
\* with digits and a dot, joined by spaces; otherwise, or when nothing is
\* left of the address, "Unknown Opening". The code is the value of the ECO
\* line, or "Unknown" without one
C18_OpeningName ==
    pc = "done" =>
        \A i \in 1..Len(games) :
            LET tags == games[i].pgn.tags
                codes == ValuesOf(tags, "ECO")
            IN  /\ outOther[i].name = NameOf(tags)
                /\ outOther[i].eco =
                       (IF codes # <<>> THEN Chars(codes[1]) ELSE Chars("Unknown"))

\* a batch with a record whose name is the start of its address, the move
\* numbers cut off, and a record named by its Opening line
C18_Witness ==
    /\ pc = "done"
    /\ \E i \in 1..Len(games) :
           LET urls == ValuesOf(games[i].pgn.tags, "ECOUrl")
           IN  /\ ValuesOf(games[i].pgn.tags, "Opening") = <<>>
               /\ urls # <<>>
               /\ \E h \in 1..Len(Chars(urls[1])) : IsMoveNumber(SubSeq(Chars(urls[1]), h, Len(Chars(urls[1]))))
               /\ " " \in {outOther[i].name[k] : k \in 1..Len(outOther[i].name)}
               /\ outOther[i].name # Chars("Unknown Opening")
    /\ \E j \in 1..Len(games) :
           /\ ValuesOf(games[j].pgn.tags, "Opening") # <<>>
           /\ outOther[j].name = Chars(ValuesOf(games[j].pgn.tags, "Opening")[1])
\* ------------------------------------------------------------------------
\* SpecFrame: the analysis functions and the array they are handed.  A call
\* works on two arrays: args, the array the caller passed, and local, the
\* array the function builds; an array expression is a reference to one of
\* them together with the contents of both.
\* ------------------------------------------------------------------------

Arrays(gs) == [args |-> gs, local |-> <<>>]

\* games itself where the source writes [...games]
noSpread(arrays) == [arrays |-> arrays, ref |-> "args"]

\* [...games]: a fresh array with the elements of games
spread(arrays) == [arrays |-> [arrays EXCEPT !.local = arrays.args], ref |-> "local"]

\* an array the function has built itself: const points = [], Array.from(...)
fresh(arrays, content) == [arrays |-> [arrays EXCEPT !.local = content], ref |-> "local"]

\* Array.prototype.sort sorts the array it is called on in place; sorter
\* gives the sorted order
sortInPlace(a, sorter(_)) == [a.arrays EXCEPT ![a.ref] = sorter(@)]

\* computeRatingHistory(games, username)
computeRatingHistory(gs, user) ==
    sortByTime([i \in 1..Len(gs) |->
                   [date |-> gs[i].end_time,
                    rating |-> IF playedAsWhite(gs[i], user) THEN gs[i].white.rating
                               ELSE gs[i].black.rating,
                    gameType |-> gs[i].time_class]])

AnalysisFunctions ==
    {"computeResultCounts", "computeRatingHistory", "computeOpeningStats",
     "computeCalendarStats", "computeAccuracyStats", "computeCastlingStats",
     "computePieceMoveFrequency", "computeActivityHeatmap", "computeTacticsStats"}

\* what the function fn returns for the batch gs
ResultOf(fn, gs, user) ==
    CASE fn = "computeResultCounts" -> computeResultCounts(gs, user)
      [] fn = "computeRatingHistory" -> computeRatingHistory(gs, user)
      [] fn = "computeOpeningStats" -> computeOpeningStats(gs, user, "white", DefaultTopN)
      [] fn = "computeCalendarStats" -> computeCalendarStats(gs, user, 0)
      [] fn = "computeAccuracyStats" -> computeAccuracyStats(gs, user)
      [] fn = "computeCastlingStats" -> computeCastlingStats(gs, user)
      [] fn = "computePieceMoveFrequency" -> computePieceMoveFrequency(gs, user)
      [] fn = "computeActivityHeatmap" -> computeActivityHeatmap(gs, user)
      [] fn = "computeTacticsStats" -> computeTacticsStats(gs, user)

\* the array the caller passed, as the call of fn leaves it: the functions
\* that sort do it on an array of their own, computeTacticsStats on a copy
\* of games; the others sort nothing and write to no record
ArgsAfter(fn, gs, value) ==
    CASE fn = "computeTacticsStats" -> sortInPlace(spread(Arrays(gs)), sortRecent).args
      [] fn = "computeRatingHistory" -> sortInPlace(fresh(Arrays(gs), value), sortByTime).args
      [] fn = "computeAccuracyStats" ->
           sortInPlace(fresh(Arrays(gs), value.history), sortByTime).args
      [] fn = "computeOpeningStats" -> sortInPlace(fresh(Arrays(gs), value), sortByCount).args
      [] fn = "computeActivityHeatmap" -> sortInPlace(fresh(Arrays(gs), value), sortByDate).args
      [] OTHER -> Arrays(gs).args

\* a record with every field the functions read
FrameRec(side, t, type, review, acc) ==
    [AccuracyRec(side, t, type, review, acc) EXCEPT
        !.white = @ @@ [rating |-> 1500 + t],
        !.black = @ @@ [rating |-> 1400 + acc]]

FrameRecords ==
    {FrameRec("w", 3, "blitz", TRUE, 90), FrameRec("b", 1, "blitz", TRUE, 80),
     FrameRec("w", 2, "rapid", FALSE, 0), FrameRec("b", 2, "rapid", TRUE, 100)}

\* the longest batch
MaxFrame == 3

\* other keeps the batch as the caller built it
FrameInit ==
    /\ HookIdle
    /\ AppIdle
    /\ games \in SeqsUpTo(FrameRecords, MaxFrame)
    /\ other = games
    /\ username \in {"alice"}
    /\ out = Null
    /\ outOther = Null
    /\ pc = "input"

\* a call of fn on the caller's array: the first call's result goes to out,
\* the second call's to outOther
AnalysisCall(fn) ==
    /\ pc \in {"input", "called"}
    /\ \E value \in {ResultOf(fn, games, username)} :
           /\ IF pc = "input"
              THEN out' = [fn |-> fn, value |-> value] /\ UNCHANGED outOther
              ELSE outOther' = [fn |-> fn, value |-> value] /\ UNCHANGED out
           /\ games' = ArgsAfter(fn, games, value)
    /\ pc' = IF pc = "input" THEN "called" ELSE "done"
    /\ UNCHANGED <<other, username>>
    /\ UNCHANGED <<hookVars, appVars>>

FrameNext == \E fn \in AnalysisFunctions : AnalysisCall(fn)

SpecFrame == FrameInit /\ [][FrameNext]_vars

Response(sent, status, json) == [sent |-> sent, status |-> status, json |-> json]

Ok == Response(TRUE, 200, TRUE)
NotFound == Response(TRUE, 404, TRUE)
ServerError == Response(TRUE, 500, TRUE)
Offline == Response(FALSE, 0, FALSE)
BadJson == Response(TRUE, 200, FALSE)

\* response.ok: the status is in the range 200-299
IsOk(status) == status >= 200 /\ status <= 299

\* apiFetch: a ChessApiError of status 0 when fetch rejects, a ChessApiError
\* of the response's status when it is not ok, the SyntaxError of
\* response.json() when the body does not parse, the data otherwise
apiFetch(response) ==
    IF ~response.sent THEN [threw |-> TRUE, api |-> TRUE, status |-> 0]
    ELSE IF ~IsOk(response.status)
    THEN [threw |-> TRUE, api |-> TRUE, status |-> response.status]
    ELSE IF ~response.json THEN [threw |-> TRUE, api |-> FALSE, status |-> 0]
    ELSE [threw |-> FALSE, api |-> FALSE, status |-> 0]

\* errorMessage that tells no status from another
errorMessageAnyStatus(err, user) ==
    IF err.api THEN [text |-> "Failed to load data", username |-> ""]
    ELSE [text |-> "An unexpected error occurred", username |-> ""]

\* the message load puts in the store for an error it caught
errorMessage(err, user) ==
    IF err.api
    THEN IF err.status = 404 THEN [text |-> "not found on chess.com", username |-> user]
         ELSE [text |-> "Failed to load data", username |-> ""]
    ELSE [text |-> "An unexpected error occurred", username |-> ""]

\* ------------------------------------------------------------------------
\* The archive URLs and the games of a month
\* ------------------------------------------------------------------------

\* the end of an archive URL: the segments after /games/, each the sequence
\* of its characters
ArchiveUrl(year, month) == <<year, month>>

DigitValue(ch) ==
    CASE ch = "0" -> 0 [] ch = "1" -> 1 [] ch = "2" -> 2 [] ch = "3" -> 3 [] ch = "4" -> 4
      [] ch = "5" -> 5 [] ch = "6" -> 6 [] ch = "7" -> 7 [] ch = "8" -> 8 [] ch = "9" -> 9

\* parseInt(digits, 10) for a sequence of digits
RECURSIVE parseInt(_)
parseInt(digits) ==
    IF digits = <<>> THEN 0
    ELSE (10 * parseInt(SubSeq(digits, 1, Len(digits) - 1))) + DigitValue(digits[Len(digits)])

\* archiveUrl.match(/\/games\/(\d{4})\/(\d{2})$/)
MatchArchive(url) ==
    /\ Len(url) = 2
    /\ Len(url[1]) = 4 /\ \A k \in 1..4 : url[1][k] \in Digit
    /\ Len(url[2]) = 2 /\ \A k \in 1..2 : url[2][k] \in Digit

\* the games the API holds for a player and a month, oldest first
MonthlyGames(lower, year, month, n) ==
    [k \in 1..n |-> [url |-> <<lower, year, month, k>>,
                     end_time |-> (((year % 100) * 12 + month) * 100) + k]]

\* ------------------------------------------------------------------------
\* gameCache.ts
\* ------------------------------------------------------------------------

\* `${username.toLowerCase()}:${year}:${month}`
cacheKey(user, year, month) == <<toLowerCase(user), year, month>>

\* isCurrentMonth with getMonth() taken for the number of the month
isCurrentMonthFromZero(year, month) ==
    env.now.fullYear = year /\ env.now.month = month

\* now.getFullYear() === year && now.getMonth() + 1 === month
isCurrentMonth(year, month) ==
    env.now.fullYear = year /\ env.now.month + 1 = month

\* getCachedGames: null for the current month, when the request fails and
\* when there is no entry; failed tells whether the request failed
getCachedGames(year, month, key, failed) ==
    IF isCurrentMonth(year, month) THEN Null
    ELSE IF failed THEN Null
    ELSE IF key \in DOMAIN cache THEN [games |-> cache[key]]
    ELSE Null

\* setCachedGames: the object store after the call
setCachedGames(year, month, key, gs, failed) ==
    IF isCurrentMonth(year, month) THEN cache
    ELSE IF failed THEN cache
    ELSE (key :> gs) @@ cache

\* ------------------------------------------------------------------------
\* gameStore.ts: the setters
\* ------------------------------------------------------------------------

\* setProgress: { ...state.progress, ...progress }
setProgress(st, progress) == [st EXCEPT !.progress = progress @@ @]

\* appendGames: [...state.games, ...newGames]
appendGames(st, newGames) == [st EXCEPT !.games = @ \o newGames]

\* ------------------------------------------------------------------------
\* useLoadPlayerData.ts: load.  A call of load is a task: the values of its
\* local variables and pc, the await it is suspended at ("done" when it
\* has returned).  The code between two awaits runs in one step.
\* ------------------------------------------------------------------------

DefaultMonthsLimit == 3

DefaultGameLimit == 30

\* the cap the tests of load name
NamedGameLimit == 200

\* archives.slice(-monthsLimit)
sliceLast(s, n) == SubSeq(s, IF Len(s) > n THEN Len(s) - n + 1 ELSE 1, Len(s))

\* the argument of appendGames
finalGames(collectedGames, gameLimit) ==
    IF Len(collectedGames) > gameLimit
    THEN slice(sortRecent(collectedGames), gameLimit)
    ELSE collectedGames

\* the catch block of load: setError(message), setLoadingState('error')
Catch(st, task, err) ==
    [store |-> [st EXCEPT !.error = errorMessage(err, task.username),
                          !.loadingState = "error"],
     task |-> [task EXCEPT !.pc = "done", !.err = err]]

\* the loop of load from the archive at index i on, up to its next await
\* or, when no archive is left, to the end of the function
Advance(st, task, i) ==
    LET rest == {j \in i..Len(task.recentArchives) : MatchArchive(task.recentArchives[j])}
    IN  IF rest # {}
        THEN [store |-> st,
              task |-> [task EXCEPT !.pc = "getCachedGames", !.i = Least(rest),
                            !.year = parseInt(task.recentArchives[Least(rest)][1]),
                            !.month = parseInt(task.recentArchives[Least(rest)][2])]]
        ELSE LET final == finalGames(task.collectedGames, task.gameLimit)
             IN  [store |-> [setProgress(appendGames(st, final),
                                         [totalGames |-> Len(final)])
                                EXCEPT !.loadingState = "success"],
                  task |-> [task EXCEPT !.pc = "done", !.i = Len(task.recentArchives) + 1]]

\* collectedGames.push(...games); setProgress(...); and on with the loop
Collect(st, task, gs) ==
    LET all == task.collectedGames \o gs
    IN  Advance(setProgress(st, [fetchedMonths |-> task.i, totalGames |-> Len(all)]),
                [task EXCEPT !.collectedGames = all], task.i + 1)

\* a request, as calls records it for the task that made it
Call(fn, args) == [fn |-> fn, args |-> args]

\* InsightsPage: the effect that runs when the username of the URL is u
InsightsPageEffect ==
    /\ env # Null
    /\ env.visits # <<>>
    /\ LET u == Head(env.visits)
       IN  /\ env' = [env EXCEPT !.visits = Tail(@)]
           /\ IF u # store.username
              THEN \* load(u) up to its first await
                   /\ store' = [initialStore EXCEPT !.username = u,
                                                    !.loadingState = "loading"]
                   /\ tasks' = Append(tasks,
                          [username |-> u, pc |-> "profile",
                           monthsLimit |-> Field(env.testCfg, "monthsLimit", DefaultMonthsLimit),
                           gameLimit |-> Field(env.testCfg, "gameLimit", DefaultGameLimit),
                           recentArchives |-> <<>>, i |-> 0, year |-> 0, month |-> 0,
                           games |-> <<>>, collectedGames |-> <<>>, err |-> Null,
                           \* not of the code: the calls of load that had not
                           \* returned when this one was made
                           overlaps |-> {j \in 1..Len(tasks) : tasks[j].pc # "done"}])
                   /\ calls' = Append(calls, <<Call("fetchPlayerProfile", <<u>>),
                                                Call("fetchPlayerStats", <<u>>)>>)
              ELSE UNCHANGED <<store, tasks, calls>>
    /\ UNCHANGED cache
    /\ UNCHANGED <<hookVars, pureVars>>

\* Promise.all([fetchPlayerProfile, fetchPlayerStats]) settles: it rejects
\* with the error of the fetch that fails first
ProfileAndStats(k) ==
    /\ tasks[k].pc = "profile"
    /\ \E forProfile \in env.responses, forStats \in env.responses :
         \E err \in {apiFetch(forProfile), apiFetch(forStats)} :
           /\ (apiFetch(forProfile).threw \/ apiFetch(forStats).threw) => err.threw
           /\ IF err.threw
              THEN /\ store' = Catch(store, tasks[k], err).store
                   /\ tasks' = [tasks EXCEPT ![k] = Catch(store, tasks[k], err).task]
                   /\ UNCHANGED calls
              ELSE /\ store' = [store EXCEPT !.profile = [of |-> toLowerCase(tasks[k].username)],
                                             !.stats = [of |-> toLowerCase(tasks[k].username)]]
                   /\ tasks' = [tasks EXCEPT ![k].pc = "archives"]
                   /\ calls' = [calls EXCEPT ![k] =
                                     Append(@, Call("fetchGameArchives", <<tasks[k].username>>))]
    /\ UNCHANGED <<cache, env>>
    /\ UNCHANGED <<hookVars, pureVars>>

\* fetchGameArchives settles
Archives(k) ==
    /\ tasks[k].pc = "archives"
    /\ \E response \in env.responses :
         LET err == apiFetch(response)
             recentArchives == sliceLast(env.archives, tasks[k].monthsLimit)
             next == IF err.threw THEN Catch(store, tasks[k], err)
                     ELSE Advance(setProgress(store,
                                      [totalMonths |-> Len(recentArchives),
                                       fetchedMonths |-> 0, totalGames |-> 0]),
                                  [tasks[k] EXCEPT !.recentArchives = recentArchives], 1)
         IN  /\ store' = next.store
             /\ tasks' = [tasks EXCEPT ![k] = next.task]
    /\ UNCHANGED <<cache, env, calls>>
    /\ UNCHANGED <<hookVars, pureVars>>

\* getCachedGames settles; the request to IndexedDB may fail
GetCached(k) ==
    /\ tasks[k].pc = "getCachedGames"
    /\ \E failed \in {FALSE, env.idbFails} :
         LET t == tasks[k]
             key == cacheKey(t.username, t.year, t.month)
             found == getCachedGames(t.year, t.month, key, failed)
             next == IF found = Null
                     THEN [store |-> store, task |-> [t EXCEPT !.pc = "fetchMonthlyGames"]]
                     ELSE Collect(store, t, found.games)
         IN  /\ store' = next.store
             /\ tasks' = [tasks EXCEPT ![k] = next.task]
             /\ calls' = [calls EXCEPT ![k] = @
                    \o <<Call("getCachedGames",
                              [key |-> key, entry |-> key \in DOMAIN cache,
                               failed |-> failed, hit |-> found # Null])>>
                    \o (IF found = Null
                        THEN <<Call("fetchMonthlyGames", <<t.username, t.year, t.month>>)>>
                        ELSE <<>>)]
    /\ UNCHANGED <<cache, env>>
    /\ UNCHANGED <<hookVars, pureVars>>

\* fetchMonthlyGames settles
FetchMonthly(k) ==
    /\ tasks[k].pc = "fetchMonthlyGames"
    /\ \E response \in env.responses :
         LET t == tasks[k]
             err == apiFetch(response)
             next == IF err.threw THEN Catch(store, t, err)
                     ELSE [store |-> store,
                           task |-> [t EXCEPT !.pc = "setCachedGames",
                                        !.games = MonthlyGames(toLowerCase(t.username),
                                                      t.year, t.month, env.perMonth)]]
         IN  /\ store' = next.store
             /\ tasks' = [tasks EXCEPT ![k] = next.task]
    /\ UNCHANGED <<cache, env, calls>>
    /\ UNCHANGED <<hookVars, pureVars>>

\* setCachedGames settles; the request to IndexedDB may fail
SetCached(k) ==
    /\ tasks[k].pc = "setCachedGames"
    /\ \E failed \in {FALSE, env.idbFails} :
         LET t == tasks[k]
             key == cacheKey(t.username, t.year, t.month)
             next == Collect(store, t, t.games)
         IN  /\ cache' = setCachedGames(t.year, t.month, key, t.games, failed)
             /\ store' = next.store
             /\ tasks' = [tasks EXCEPT ![k] = next.task]
             /\ calls' = [calls EXCEPT ![k] =
                               Append(@, Call("setCachedGames",
                                              [key |-> key, failed |-> failed]))]
    /\ UNCHANGED env
    /\ UNCHANGED <<hookVars, pureVars>>

\* ------------------------------------------------------------------------
\* The environments of a load: the clock, the test override of the window,
\* the archives the API lists, the number of games it holds for a month,
\* the responses the network gives, whether requests to IndexedDB can fail,
\* and the usernames the URL goes through.
\* ------------------------------------------------------------------------

Jan == ArchiveUrl(<<"2", "0", "2", "5">>, <<"0", "1">>)
Feb == ArchiveUrl(<<"2", "0", "2", "5">>, <<"0", "2">>)
Mar == ArchiveUrl(<<"2", "0", "2", "5">>, <<"0", "3">>)
Dec == ArchiveUrl(<<"2", "0", "2", "4">>, <<"1", "2">>)
\* a URL the pattern of load does not match
Odd == ArchiveUrl(<<"2", "0", "2", "5">>, <<"2">>)

\* March 2025: getMonth() counts from 0
Clock == [fullYear |-> 2025, month |-> 2]

\* one visit, and two visits with fewer archives and games
LoadScenarios ==
    [now : {Clock},
     testCfg : {Null, [gameLimit |-> 2], [monthsLimit |-> 1]},
     archives : {<<Jan, Feb, Mar>>, <<Dec, Jan, Odd, Mar>>, <<>>},
     perMonth : {1, 11},
     responses : {{Ok}, {Ok, NotFound, Offline, BadJson}},
     idbFails : BOOLEAN,
     visits : {<<"alice">>}]
    \cup
    [now : {Clock},
     testCfg : {Null},
     archives : {<<Feb, Mar>>},
     perMonth : {1},
     responses : {{Ok}, {Ok, NotFound}},
     idbFails : BOOLEAN,
     visits : {<<"alice", "ALICE">>, <<"alice", "bob">>}]

LoadInit ==
    /\ HookIdle
    /\ games = <<>>
    /\ other = <<>>
    /\ username = "none"
    /\ out = Null
    /\ outOther = Null
    /\ pc = "input"
    /\ store = initialStore
    /\ cache = <<>>
    /\ tasks = <<>>
    /\ calls = <<>>
    /\ env \in LoadScenarios

LoadNext ==
    \/ InsightsPageEffect
    \/ \E k \in 1..Len(tasks) : ProfileAndStats(k)
    \/ \E k \in 1..Len(tasks) : Archives(k)
    \/ \E k \in 1..Len(tasks) : GetCached(k)
    \/ \E k \in 1..Len(tasks) : FetchMonthly(k)
    \/ \E k \in 1..Len(tasks) : SetCached(k)

SpecLoad == LoadInit /\ [][LoadNext]_vars
\* ------------------------------------------------------------------------
\* The games load leaves in the store
\* ------------------------------------------------------------------------

\* task k is the only call of load and has returned without an error
LoadedAlone(k) ==
    /\ Len(tasks) = 1
    /\ k = 1
    /\ env.visits = <<>>
    /\ tasks[k].pc = "done"
    /\ tasks[k].err = Null

\* kept holds n of the games of all, none of them older than a game left out
MostRecent(kept, all, n) ==
    /\ Len(kept) = n
    /\ \A i \in 1..Len(kept) : \E j \in 1..Len(all) : kept[i] = all[j]
    /\ \A i \in 1..Len(kept), j \in 1..Len(all) :
         (\A h \in 1..Len(kept) : kept[h] # all[j]) => kept[i].end_time >= all[j].end_time

\* C23: with no test override, load stores the 200 most recent games when
\* the fetched months hold more than 200 games, and all the collected
\* games otherwise
C23_CapAt200 ==
    \A k \in 1..Len(tasks) :
        (LoadedAlone(k) /\ env.testCfg = Null) =>
            IF Len(tasks[k].collectedGames) > NamedGameLimit
            THEN MostRecent(store.games, tasks[k].collectedGames, NamedGameLimit)
            ELSE store.games = tasks[k].collectedGames

\* what load does: the cap is gameLimit, 30 without a test override
LoadCapsAtGameLimit ==
    \A k \in 1..Len(tasks) :
        (LoadedAlone(k) /\ env.testCfg = Null) =>
            IF Len(tasks[k].collectedGames) > DefaultGameLimit
            THEN MostRecent(store.games, tasks[k].collectedGames, DefaultGameLimit)
            ELSE store.games = tasks[k].collectedGames
\* ------------------------------------------------------------------------
\* The cache during load
\* ------------------------------------------------------------------------

\* key is a cache key of the current calendar month
CurrentKey(key) == key[2] = env.now.fullYear /\ key[3] = env.now.month + 1

\* the n-th request of task k is a call of fn
IsCall(k, n, fn) == n \in 1..Len(calls[k]) /\ calls[k][n].fn = fn

\* the lookup that is the n-th request of task k is followed by the fetch
\* of the month
ThenFetched(k, n) == IsCall(k, n + 1, "fetchMonthlyGames")

\* the cache has no entry of the current month, and no lookup for the
\* current month is answered from the cache: the month is fetched
CurrentMonthUncached ==
    /\ \A key \in DOMAIN cache : ~CurrentKey(key)
    /\ \A k \in 1..Len(calls) : \A n \in 1..Len(calls[k]) :
         (IsCall(k, n, "getCachedGames") /\ CurrentKey(calls[k][n].args.key)) =>
             ~calls[k][n].args.hit /\ ThenFetched(k, n)

\* the lookups of months with an entry are answered from the cache and not
\* followed by a fetch; readable tells whether a lookup counts
ServedFromCache(readable(_)) ==
    \A k \in 1..Len(calls) : \A n \in 1..Len(calls[k]) :
        (/\ IsCall(k, n, "getCachedGames")
         /\ ~CurrentKey(calls[k][n].args.key)
         /\ calls[k][n].args.entry
         /\ readable(calls[k][n].args)) =>
            calls[k][n].args.hit /\ ~ThenFetched(k, n)

\* the months written hold their games in the cache; writable tells
\* whether a write counts
WrittenToCache(writable(_)) ==
    \A k \in 1..Len(calls) : \A n \in 1..Len(calls[k]) :
        (/\ IsCall(k, n, "setCachedGames")
         /\ ~CurrentKey(calls[k][n].args.key)
         /\ writable(calls[k][n].args)) =>
            LET key == calls[k][n].args.key
            IN  /\ key \in DOMAIN cache
                /\ cache[key] = MonthlyGames(key[1], key[2], key[3], env.perMonth)

Always(args) == TRUE

Succeeded(args) == ~args.failed

Alone(k) == Len(tasks) = 1 /\ k = 1

\* an error is the ChessApiError of a 404
IsNotFound(err) == err.api /\ err.status = 404

\* C26: when a fetch of a load fails, the load ends with loadingState
\* "error" and an error message, the not-found message for a ChessApiError
\* of status 404, and with no games in the store; loadingState is "success"
\* only for a load that returned without an error
C26_FailedLoad ==
    \A k \in 1..Len(tasks) :
        Alone(k) =>
            /\ (tasks[k].pc = "done" /\ tasks[k].err # Null) =>
                  /\ store.loadingState = "error"
                  /\ store.error # Null
                  /\ IsNotFound(tasks[k].err) =>
                        store.error = [text |-> "not found on chess.com",
                                       username |-> tasks[k].username]
                  /\ store.games = <<>>
            /\ store.loadingState = "success" =>
                  tasks[k].pc = "done" /\ tasks[k].err = Null
            /\ tasks[k].pc # "done" =>
                  store.loadingState = "loading" /\ store.games = <<>>

\* the fetch of a month failed with a 404 after a month had been collected
C26_Witness ==
    /\ Len(tasks) = 1
    /\ tasks[1].pc = "done"
    /\ tasks[1].err # Null
    /\ IsNotFound(tasks[1].err)
    /\ tasks[1].collectedGames # <<>>
    /\ store.loadingState = "error"
\* ------------------------------------------------------------------------
\* Two loads at a time
\* ------------------------------------------------------------------------

\* a game is of the player of task k
GameOf(game, k) == game.url[1] = toLowerCase(tasks[k].username)

\* the error and loadingState a load that ran alone would have left
OutcomeOf(k) ==
    IF tasks[k].err = Null THEN [loadingState |-> "success", error |-> Null]
    ELSE [loadingState |-> "error", error |-> errorMessage(tasks[k].err, tasks[k].username)]

\* C30: when load(u2) is started while load(u1) is awaiting its fetches,
\* once both have returned the store holds the username u2, no game the
\* load for u1 collected, and the loadingState and error of load(u2)
C30_LastLoadWins ==
    \A k1 \in 1..Len(tasks) : \A k2 \in 1..Len(tasks) :
        (/\ k1 \in tasks[k2].overlaps
         /\ tasks[k1].pc = "done"
         /\ tasks[k2].pc = "done"
         /\ toLowerCase(tasks[k1].username) # toLowerCase(tasks[k2].username)) =>
            /\ store.username = tasks[k2].username
            /\ \A n \in 1..Len(store.games) : ~GameOf(store.games[n], k1)
            /\ store.loadingState = OutcomeOf(k2).loadingState
            /\ store.error = OutcomeOf(k2).error

\* the part of C30 that holds: the username of the store is u2
LastUsernameWins ==
    \A k1 \in 1..Len(tasks) : \A k2 \in 1..Len(tasks) :
        k1 \in tasks[k2].overlaps => store.username = tasks[k2].username
\* the store names u2 and holds games of u1 beside those of u2
MixedGames ==
    /\ Len(tasks) = 2
    /\ 1 \in tasks[2].overlaps
    /\ tasks[1].pc = "done" /\ tasks[2].pc = "done"
    /\ store.username = "bob"
    /\ \E n \in 1..Len(store.games) : GameOf(store.games[n], 1)
    /\ \E n \in 1..Len(store.games) : GameOf(store.games[n], 2)
\* ------------------------------------------------------------------------
\* useLoadOpponentCountries.ts: the effect of the hook and fetchAll.  The
\* run of fetchAll is a task: its local variables, the await it is at, and
\* the lookups of its batch that have not settled.
\* ------------------------------------------------------------------------

BATCH_SIZE == 5

\* opponents.add(opp) for the games from the n-th on: a Set keeps the order
\* of the first insertions
RECURSIVE AddOpponents(_, _, _, _)
AddOpponents(gs, n, user, opponents) ==
    IF n > Len(gs) THEN opponents
    ELSE LET opp == toLowerCase(IF playedAsWhite(gs[n], user)
                                THEN gs[n].black.username ELSE gs[n].white.username)
         IN  AddOpponents(gs, n + 1, user,
                          IF \E k \in 1..Len(opponents) : opponents[k] = opp
                          THEN opponents ELSE Append(opponents, opp))

extractOpponentUsernames(gs, user) == AddOpponents(gs, 1, user, <<>>)

\* opponents.slice(i) in the place of the batch
sliceRest(opponents, i) == SubSeq(opponents, i + 1, Len(opponents))

\* opponents.slice(i, i + BATCH_SIZE)
sliceBatch(opponents, i) == SubSeq(opponents, i + 1, Min(i + BATCH_SIZE, Len(opponents)))

\* the URL of a country, split at the slashes
CountryUrl(code) == <<"https:", "", "api.chess.com", "pub", "country", code>>

\* fetchPlayerCountry: null when the request fails or the profile has no
\* country, the last segment of the country URL otherwise
fetchPlayerCountry(response, profile) ==
    IF apiFetch(response).threw THEN Null
    ELSE IF "country" \notin DOMAIN profile THEN Null
    ELSE [code |-> profile.country[Len(profile.country)]]

\* batch.forEach: result[opp] = code for the lookups that gave a code
RECURSIVE ForEach(_, _, _, _)
ForEach(batch, idx, resolved, result) ==
    IF idx > Len(batch) THEN result
    ELSE ForEach(batch, idx + 1, resolved,
                 IF resolved[batch[idx]] # Null
                 THEN (batch[idx] :> resolved[batch[idx]].code) @@ result
                 ELSE result)

\* the lookups of a batch, all made before the await
StartBatch(task, i) ==
    [task EXCEPT !.pc = "lookups", !.i = i,
                 !.batch = sliceBatch(task.opponents, i),
                 !.pending = {sliceBatch(task.opponents, i)[k] :
                                 k \in 1..Len(sliceBatch(task.opponents, i))},
                 !.resolved = <<>>]

\* the effect of the hook; fetchedRef.current is set once a task exists
CountriesEffect ==
    /\ env # Null
    /\ store.loadingState = "success"
    /\ store.games # <<>>
    /\ store.username # NoUsername
    /\ tasks = <<>>
    /\ LET opponents == extractOpponentUsernames(store.games, store.username)
           task == [pc |-> "lookups", opponents |-> opponents, i |-> 0, batch |-> <<>>,
                    pending |-> {}, resolved |-> <<>>, result |-> <<>>]
       IN  IF opponents = <<>>
           THEN /\ tasks' = <<[task EXCEPT !.pc = "done"]>>
                /\ store' = [store EXCEPT !.countriesLoadingState = "success"]
           ELSE /\ tasks' = <<StartBatch(task, 0)>>
                /\ store' = [store EXCEPT !.countriesLoadingState = "loading"]
    /\ UNCHANGED <<cache, env, calls>>
    /\ UNCHANGED <<hookVars, pureVars>>

\* the lookup of opp settles
LookupSettles(opp) ==
    /\ tasks # <<>>
    /\ tasks[1].pc = "lookups"
    /\ opp \in tasks[1].pending
    /\ \E response \in env.responses, profile \in env.profiles :
         tasks' = [tasks EXCEPT ![1].pending = @ \ {opp},
                                ![1].resolved = (opp :> fetchPlayerCountry(response, profile)) @@ @]
    /\ UNCHANGED <<store, cache, env, calls>>
    /\ UNCHANGED <<hookVars, pureVars>>

\* Promise.all of the batch has resolved: fetchAll goes on to its next await
\* or to its end
BatchResolved ==
    /\ tasks # <<>>
    /\ tasks[1].pc = "lookups"
    /\ tasks[1].pending = {}
    /\ LET task == tasks[1]
           result == ForEach(task.batch, 1, task.resolved, task.result)
           more == task.i + BATCH_SIZE < Len(task.opponents)
       IN  /\ tasks' = <<[task EXCEPT !.result = result,
                                      !.pc = IF more THEN "sleep" ELSE "done"]>>
           /\ store' = [store EXCEPT !.opponentCountries = result,
                                     !.countriesLoadingState =
                                         IF more THEN @ ELSE "success"]
    /\ UNCHANGED <<cache, env, calls>>
    /\ UNCHANGED <<hookVars, pureVars>>

\* sleep(BATCH_DELAY_MS) is over: the next batch
Slept ==
    /\ tasks # <<>>
    /\ tasks[1].pc = "sleep"
    /\ tasks' = <<StartBatch(tasks[1], tasks[1].i + BATCH_SIZE)>>
    /\ UNCHANGED <<store, cache, env, calls>>
    /\ UNCHANGED <<hookVars, pureVars>>

MaxOpponents == 11

Opponent(k) ==
    <<"bob", "carol", "dave", "erin", "frank", "grace", "heidi", "ivan", "judy",
      "mallory", "niaj", "olivia", "peggy">>[k]

\* a game of alice against each of n opponents, alternately as White and
\* as Black, and a second game against the first of them
GamesAgainst(n) ==
    [k \in 1..(n + 1) |->
        LET opp == Opponent(IF k > n THEN 1 ELSE k)
        IN  IF k % 2 = 1
            THEN [white |-> [username |-> "ALICE"], black |-> [username |-> opp]]
            ELSE [white |-> [username |-> opp], black |-> [username |-> "alice"]]]

\* the stores the hook runs on: after a load that succeeded, with games and
\* without, and after a load that failed
CountriesStores ==
    {[initialStore EXCEPT !.username = "alice", !.loadingState = "success",
                          !.games = GamesAgainst(n)] : n \in {1, 5, 6, MaxOpponents}}
    \cup {[initialStore EXCEPT !.username = "alice", !.loadingState = "success"],
          [initialStore EXCEPT !.username = "alice", !.loadingState = "error"]}

CountriesInit ==
    /\ HookIdle
    /\ games = <<>>
    /\ other = <<>>
    /\ username = "none"
    /\ out = Null
    /\ outOther = Null
    /\ pc = "input"
    /\ store \in CountriesStores
    /\ cache = <<>>
    /\ tasks = <<>>
    /\ calls = <<>>
    /\ env \in [responses : {{Ok}, {Ok, NotFound}},
                profiles : {{[url |-> "", country |-> CountryUrl("US")]},
                            {[url |-> "", country |-> CountryUrl("US")], [url |-> ""]}}]

CountriesNext ==
    \/ CountriesEffect
    \/ \E opp \in {Opponent(k) : k \in 1..MaxOpponents} : LookupSettles(opp)
    \/ BatchResolved
    \/ Slept

SpecCountries == CountriesInit /\ [][CountriesNext]_vars
\* the lookups in flight
InFlight == IF tasks = <<>> THEN {} ELSE tasks[1].pending

\* the state of fetchAll and of the store agree
CountriesState ==
    /\ Cardinality(InFlight) <= BATCH_SIZE
    /\ tasks = <<>> => store.countriesLoadingState = "idle"
    /\ tasks # <<>> =>
         /\ tasks[1].pc \in {"lookups", "sleep"} => store.countriesLoadingState = "loading"
         /\ tasks[1].pc = "done" =>
              /\ store.countriesLoadingState = "success"
              /\ store.opponentCountries = tasks[1].result

\* a step starts lookups only when none is in flight, keeps every entry of
\* the published map, and takes countriesLoadingState from idle to loading
\* or, publishing the last batch, from loading to success
CountriesStep ==
    /\ InFlight' \ InFlight # {} => InFlight = {}
    /\ \A opp \in DOMAIN store.opponentCountries :
         /\ opp \in DOMAIN store'.opponentCountries
         /\ store'.opponentCountries[opp] = store.opponentCountries[opp]
    /\ store'.countriesLoadingState # store.countriesLoadingState =>
         \/ /\ store.countriesLoadingState = "idle"
            /\ store'.countriesLoadingState = "loading"
         \/ /\ store.countriesLoadingState = "loading"
            /\ store'.countriesLoadingState = "success"
            /\ tasks[1].pc = "lookups" /\ tasks'[1].pc = "done"
            /\ tasks[1].i + BATCH_SIZE >= Len(tasks[1].opponents)
            /\ store'.opponentCountries = tasks'[1].result

\* C25: at most 5 lookups are in flight at any moment, a batch is started
\* only after every lookup of the batch before it has settled, the
\* published map only grows, and countriesLoadingState goes from loading to
\* success in the step that publishes the last batch
C25_Batches == []CountriesState /\ [][CountriesStep]_vars

\* three batches were published, and not every opponent has a country
C25_Witness ==
    /\ tasks # <<>>
    /\ tasks[1].pc = "done"
    /\ tasks[1].i = 2 * BATCH_SIZE
    /\ Len(tasks[1].opponents) > 2 * BATCH_SIZE
    /\ DOMAIN store.opponentCountries # {}
    /\ Cardinality(DOMAIN store.opponentCountries) < Len(tasks[1].opponents)
    /\ store.countriesLoadingState = "success"
\* ------------------------------------------------------------------------
\* The board of computeTacticsStats during the probe
\* ------------------------------------------------------------------------

RECURSIVE PlyBoards(_, _, _, _)
\* the boards the loop over the plies applies board.move(history[i]) to,
\* from ply i on; the loop ends where the move throws
PlyBoards(board, history, i, asWhite) ==
    IF i > Len(history) THEN <<>>
    ELSE LET at == IF isPlayerTurn(board, asWhite)
                   THEN Probe(board, moves(board)).board ELSE board
         IN  IF ~CanMove(at, history[i]) THEN <<at>>
             ELSE <<at>> \o PlyBoards(move(at, history[i]), history, i + 1, asWhite)

\* the boards of the plies of a game that loadPgn accepts
BoardsOf(game, user) ==
    PlyBoards(NewChess, loadPgn(game.pgn).history, 1, playedAsWhite(game, user))

\* every played move of every game is applied to the position reached from
\* start(game) by the plies before it
AppliedAfterPlies(start(_)) ==
    \A n \in 1..Len(games) :
        loadPgn(games[n].pgn).ok =>
            \A i \in 1..Len(BoardsOf(games[n], username)) :
                BoardsOf(games[n], username)[i] =
                    [start |-> start(games[n]),
                     played |-> SubSeq(games[n].pgn.movetext, 1, i - 1)]

\* the position a game starts from: the one its FEN header sets up
StartOfGame(game) == game.pgn.fen

\* the position new Chess() starts from
StartOfBoard(game) == NewChess.start

\* C27: the probe leaves the live position as it was, so that the played
\* move of each ply is applied to the position after the plies of the game
\* before it
C27_ProbeLeavesPosition == AppliedAfterPlies(StartOfGame)

\* the part of C27 that holds: the played move of each ply is applied to
\* the position the plies before it give on the board of new Chess()
ProbeLeavesBoard == AppliedAfterPlies(StartOfBoard)
\* ------------------------------------------------------------------------
\* useTacticsWorker: no timeout
\* ------------------------------------------------------------------------

\* a worker that is alive runs its handler, and the message a worker has
\* posted is dispatched to the hook's handler
FairSpecDispatch ==
    /\ FairSpec
    /\ \A w \in 1..MaxWorkers : WF_vars(w <= Len(workers) /\ HookOnMessage(w))

\* a worker is terminated in a step only when the effect runs again, for
\* inputs that changed, or when the component unmounts
TerminatedOnlyBy ==
    \A w \in 1..Len(workers) :
        (workers[w].alive /\ ~workers'[w].alive) =>
            \/ effPending /\ ~effPending' /\ deps' # deps
            \/ mounted /\ ~mounted'

\* loading turns false in a step only when a response is dispatched to the
\* hook or when the effect runs again, for inputs that changed
LoadingEndsOnlyBy ==
    (loading /\ ~loading') =>
        \/ \E w \in 1..Len(workers) :
              /\ workers[w].outbox # <<>>
              /\ stats' = Head(workers[w].outbox)
              /\ statsFrom' = w
        \/ effPending /\ ~effPending' /\ deps' # deps

\* the current worker w has posted its response, which is not dispatched yet
HasResponded(w) ==
    /\ mounted
    /\ ~effPending
    /\ cur = w
    /\ w <= Len(workers)
    /\ workers[w].outbox # <<>>

\* the hook returns the response of worker w
ResponseApplied(w) ==
    /\ ~loading
    /\ statsFrom = w
    /\ stats = computeTacticsStats(workers[w].req.games, workers[w].req.username)

\* C28: a worker is terminated only when its invocation is superseded or
\* the component unmounts; loading ends only with a response or a new
\* invocation, so that it stays true while the worker does not respond;
\* and once the current worker has posted its response, the hook
\* eventually returns it with loading false, unless the inputs change or
\* the component unmounts first
C28_NoTimeout ==
    /\ [][TerminatedOnlyBy /\ LoadingEndsOnlyBy]_vars
    /\ \A w \in 1..MaxWorkers :
          HasResponded(w) ~> (ResponseApplied(w) \/ effPending \/ ~mounted)

\* the response of the second worker is returned by the hook, the first
\* worker having been terminated without a response
C28_Witness ==
    /\ mounted
    /\ ~effPending
    /\ cur = 2
    /\ ResponseApplied(2)
    /\ workers[2].alive
    /\ ~workers[1].alive
    /\ workers[1].posted = <<>>
\* ------------------------------------------------------------------------
\* useTacticsWorker: what the hook returns for an empty list
\* ------------------------------------------------------------------------

\* while loading is true stats is null
LoadingHasNoStats == loading => stats = Null

\* no worker was created for an empty list
NoWorkerForEmpty == \A w \in 1..Len(workers) : workers[w].req.games # <<>>

\* the summary of the empty batch
ZeroSummary == computeTacticsStats(<<>>, "alice")

\* C29 as stated: loading implies stats = null, and whenever the games of
\* the hook are empty no worker is created, stats is null and loading is
\* false
C29_EmptyAlways ==
    /\ LoadingHasNoStats
    /\ NoWorkerForEmpty
    /\ inputs.games = <<>> => stats = Null /\ ~loading

\* C29: loading implies stats = null; no worker is created for an empty
\* list; once the effect has run for an empty list stats is null, loading
\* is false and no worker is alive; and the summary of the empty batch is
\* neither posted by a worker nor returned by the hook
C29_EmptyAfterEffect ==
    /\ LoadingHasNoStats
    /\ NoWorkerForEmpty
    /\ (inputs.games = <<>> /\ ~effPending) =>
          stats = Null /\ ~loading /\ (mounted => Alive = {})
    /\ \A w \in 1..Len(workers) : \A k \in 1..Len(workers[w].posted) :
          workers[w].posted[k] # ZeroSummary
    /\ stats # ZeroSummary

\* the hook was given an empty list after a worker had responded for a
\* list with games, and its effect has run
C29_Witness ==
    /\ mounted
    /\ ~effPending
    /\ inputs.games = <<>>
    /\ stats = Null
    /\ ~loading
    /\ Len(workers) >= 1
    /\ workers[1].posted # <<>>
    /\ Alive = {}


====
